---- MODULE Spec2Model ----
(***************************************************************************)
(* Grid layout and pagination engine of the QR-code sheet generator        *)
(* (src/src/utils/qrCodeGenerator.ts, second revision, lines 848-1500).    *)
(*                                                                         *)
(* Lengths are integers in units of 0.01 mm (210 mm = 21000), so that the  *)
(* page presets (215.9 x 279.4) and the divisions by 2 of calculateLayout  *)
(* are exact for inputs given in tenths of a millimetre.                   *)
(* Indices (setIndex, pageNum, boxIndex, dataIndex) are 0-based as in the  *)
(* source; sequences are 1-based, so element i of the source is s[i + 1].  *)
(* An optional value is <<>> when undefined and <<v>> when set.            *)
(***************************************************************************)
EXTENDS Integers, Sequences, FiniteSets, TLC

VARIABLES
    data,               \* generatePDF's argument data: the input rows
    options,            \* generatePDF's argument options (caller's partial options)
    pc,                 \* position of the run: start, loop, await, done, failed
    sets,               \* const sets = detectSets(data)
    layout,             \* const layout = calculateLayout(opts)
    setIndex,           \* loop variable of the set loop
    pageNum,            \* loop variable of the page loop
    isFirstPage,        \* let isFirstPage
    totalPagesCreated,  \* let totalPagesCreated
    promises,           \* encode requests of the current page whose callback has not run
    rejected,           \* some promise of the current page's Promise.all has rejected
    pdf,                \* the jsPDF document: its pages (draw operations) and current page
    svg,                \* what generateIllustratorLayout(data, options) returned, if called
    eps,                \* what generateEPSLayout(data, options) returned, if called
    positions,          \* const positions = calculateContentPositions(opts)
    qrPageDims,         \* const pageDims = getPageDimensions(opts.pageSize, opts.orientation)
    barcode,            \* the barcode generator: options, page size, grid, i, currentPage
    ui,                 \* the QRCodeGenerator component: its React state
    uploader            \* the ExcelUploader component: its handleFile calls and state

vars == <<data, options, pc, sets, layout, setIndex, pageNum, isFirstPage,
          totalPagesCreated, promises, rejected, pdf, svg, eps, positions, qrPageDims,
          barcode, ui, uploader>>

----------------------------------------------------------------------------
(* Bounds of the model *)

MaxRows == 4            \* longest input of the generatePDF specification
MaxSetRows == 5         \* longest input of the detectSets specification
MaxPages == 3           \* cap on totalPagesCreated when the page loop is unbounded

----------------------------------------------------------------------------
(* JavaScript values *)

None == <<>>
Some(v) == <<v>>
IsSet(m) == Len(m) > 0

\* A spreadsheet cell: absent, a number, or a non-numeric text such as "abc"
NoCell == [t |-> "none", v |-> 0]
NumCell(n) == [t |-> "num", v |-> n]
TextCell == [t |-> "text", v |-> 0]

\* A non-empty text cell; two cells hold the same text when their numbers are equal
Text(n) == [t |-> "text", v |-> n]

\* JavaScript truthiness of a cell: undefined and 0 are falsy, a non-empty text is truthy
Truthy(c) == (c.t = "num" /\ c.v # 0) \/ c.t = "text"

\* A JavaScript number: finite, or NaN
Fin(n) == [nan |-> FALSE, v |-> n]
NaN == [nan |-> TRUE, v |-> 0]

\* Number(x) of a cell that is a number or a text that is no numeral
ToNumber(c) == IF c.t = "text" THEN NaN ELSE Fin(c.v)

\* a === n and a < b on JavaScript numbers: every comparison with NaN is false
StrictEq(a, n) == ~a.nan /\ a.v = n
Less(a, b) == ~a.nan /\ ~b.nan /\ a.v < b.v

\* x || d on an optional number
OrDefault(m, d) == IF IsSet(m) /\ m[1] # 0 THEN m[1] ELSE d

----------------------------------------------------------------------------
(* detectSets *)

\* Number(row['Count'] || row.count || 0)
CountOf(row) ==
    ToNumber(IF Truthy(row.Count) THEN row.Count
             ELSE IF Truthy(row.count) THEN row.count
             ELSE NumCell(0))

IsReset_LessEq(count, previousCount) ==
    IsSet(previousCount)
    /\ (StrictEq(count, 1) \/ Less(count, previousCount[1]) \/ count = previousCount[1])

\* previousCount !== null && (count === 1 || count < previousCount)
IsReset(count, previousCount) ==
    IsSet(previousCount) /\ (StrictEq(count, 1) \/ Less(count, previousCount[1]))

\* The for loop of detectSets from row i on; st = <<sets, currentSet, previousCount>>
RECURSIVE detectSetsLoop(_, _, _)
detectSetsLoop(d, i, st) ==
    IF i >= Len(d) THEN st
    ELSE LET row == d[i + 1]
             count == CountOf(row)
             flush == IsReset(count, st[3]) /\ Len(st[2]) > 0
             sets1 == IF flush THEN Append(st[1], st[2]) ELSE st[1]
             currentSet1 == IF flush THEN <<>> ELSE st[2]
         IN detectSetsLoop(d, i + 1, <<sets1, Append(currentSet1, row), Some(count)>>)

PushLastSet_Dropped(setsSoFar, currentSet) == setsSoFar

\* if (currentSet.length > 0) sets.push(currentSet)
PushLastSet(setsSoFar, currentSet) ==
    IF Len(currentSet) > 0 THEN Append(setsSoFar, currentSet) ELSE setsSoFar

detectSets(d) ==
    LET st == detectSetsLoop(d, 0, <<<<>>, <<>>, None>>)
        all == PushLastSet(st[1], st[2])
    IN IF Len(all) > 0 THEN all ELSE <<d>>

----------------------------------------------------------------------------
(* Options *)

\* pageSize: a preset name (any string) or an object {width, height}
PageName(n) == [kind |-> n, width |-> 0, height |-> 0]
PageObject(w, h) == [kind |-> "object", width |-> w, height |-> h]

\* The caller's options with every field left out
NoOptions ==
    [boxWidth |-> None, boxHeight |-> None, orientation |-> None, pageSize |-> None,
     boxesPerRow |-> None, boxesPerColumn |-> None, boxSpacing |-> None,
     rowSpacing |-> None, showFooter |-> None, customQty |-> None,
     useQuantityRepeat |-> None, quantityRepeat |-> None,
     qrCodeSize |-> None, qrCodeWidth |-> None, qrCodeHeight |-> None,
     serialToBoxGap |-> None, serialToQrGap |-> None, qrToBoxGap |-> None]

\* Lengths in 0.01 mm; qrCodeSize in hundredths (0.6 is 60)
defaultOptions ==
    [boxWidth |-> Some(5000), boxHeight |-> Some(3000), orientation |-> Some("portrait"),
     pageSize |-> Some(PageName("a4")), boxesPerRow |-> None, boxesPerColumn |-> None,
     boxSpacing |-> Some(1000), rowSpacing |-> Some(1000), showFooter |-> Some(TRUE),
     customQty |-> None, useQuantityRepeat |-> None, quantityRepeat |-> None,
     qrCodeSize |-> Some(60), qrCodeWidth |-> None, qrCodeHeight |-> None,
     serialToBoxGap |-> Some(310), serialToQrGap |-> Some(630), qrToBoxGap |-> Some(257)]

\* { ...defaultOptions, ...options }: a field the caller supplies replaces the default
MergeOptions(o) ==
    [f \in DOMAIN defaultOptions |-> IF IsSet(o[f]) THEN o[f] ELSE defaultOptions[f]]

----------------------------------------------------------------------------
(* calculateContentPositions *)

\* opts.qrCodeWidth && opts.qrCodeHeight
UsesExplicitSize(o) ==
    IsSet(o.qrCodeWidth) /\ o.qrCodeWidth[1] # 0
    /\ IsSet(o.qrCodeHeight) /\ o.qrCodeHeight[1] # 0

\* opts.boxHeight * opts.qrCodeSize
RatioSize(o) == (o.boxHeight[1] * o.qrCodeSize[1]) \div 100

QrWidth(o) == IF UsesExplicitSize(o) THEN o.qrCodeWidth[1] ELSE RatioSize(o)

QrHeight_Square(o) == QrWidth(o)

QrHeight(o) == IF UsesExplicitSize(o) THEN o.qrCodeHeight[1] ELSE RatioSize(o)

IsValidLayout_Strict(totalContentWidth, boxWidth) == totalContentWidth < boxWidth

\* totalContentWidth <= opts.boxWidth
IsValidLayout(totalContentWidth, boxWidth) == totalContentWidth <= boxWidth

calculateContentPositions(options_) ==
    LET opts == MergeOptions(options_)
        serialX == OrDefault(opts.serialToBoxGap, 310)
        qrX == serialX + OrDefault(opts.serialToQrGap, 630)
        qrWidth == QrWidth(opts)
        qrHeight == QrHeight(opts)
        totalContentWidth == serialX + OrDefault(opts.serialToQrGap, 630) + qrWidth
                                 + OrDefault(opts.qrToBoxGap, 257)
    IN [serialX |-> serialX, qrX |-> qrX, qrWidth |-> qrWidth, qrHeight |-> qrHeight,
        totalContentWidth |-> totalContentWidth,
        isValidLayout |-> IsValidLayout(totalContentWidth, opts.boxWidth[1])]

\* The value of positions before calculateContentPositions has run
NoPositions ==
    [serialX |-> 0, qrX |-> 0, qrWidth |-> 0, qrHeight |-> 0, totalContentWidth |-> 0,
     isValidLayout |-> FALSE]

----------------------------------------------------------------------------
(* getPageDimensions *)

PresetDimensions(kind) ==
    CASE kind = "a3" -> [width |-> 29700, height |-> 42000]
      [] kind = "letter" -> [width |-> 21590, height |-> 27940]
      [] kind = "custom" -> [width |-> 21000, height |-> 29700]
      [] OTHER -> [width |-> 21000, height |-> 29700]

getPageDimensions(pageSize, orientation) ==
    LET d == IF pageSize.kind = "object"
             THEN [width |-> pageSize.width, height |-> pageSize.height]
             ELSE PresetDimensions(pageSize.kind)
    IN IF orientation = "portrait" THEN d
       ELSE [width |-> d.height, height |-> d.width]

\* The value of pageDims before getPageDimensions has run
NoDimensions == [width |-> 0, height |-> 0]

----------------------------------------------------------------------------
(* barcodeGenerator.ts: getPageDimensions *)

\* sizes[pageSize] || sizes.A4
BarcodeSizes(pageSize) ==
    CASE pageSize.kind = "A4" -> [width |-> 21000, height |-> 29700]
      [] pageSize.kind = "A3" -> [width |-> 29700, height |-> 42000]
      [] pageSize.kind = "Letter" -> [width |-> 21600, height |-> 27900]
      [] OTHER -> [width |-> 21000, height |-> 29700]

barcodeGetPageDimensions(pageSize, orientation) ==
    LET size == BarcodeSizes(pageSize)
    IN IF orientation = "landscape" THEN [width |-> size.height, height |-> size.width]
       ELSE size

\* The caller's barcode options with every field left out
NoBarcodeOptions ==
    [boxWidth |-> None, boxHeight |-> None, boxSpacing |-> None, pageSize |-> None,
     orientation |-> None, margin |-> None, boxesPerRow |-> None, boxesPerColumn |-> None]

\* Lengths in 0.01 mm
defaultBarcodeOptions ==
    [boxWidth |-> Some(5000), boxHeight |-> Some(2500), boxSpacing |-> Some(200),
     pageSize |-> Some(PageName("A4")), orientation |-> Some("portrait"),
     margin |-> Some(1000), boxesPerRow |-> None, boxesPerColumn |-> None]

\* { ...defaultBarcodeOptions, ...options }
MergeBarcodeOptions(o) ==
    [f \in DOMAIN defaultBarcodeOptions |->
        IF IsSet(o[f]) THEN o[f] ELSE defaultBarcodeOptions[f]]

\* The barcode generator before it has run: the caller's options, the page size and
\* grid it computes, its loop index i and its currentPage
NoBarcode ==
    [pageDimensions |-> NoDimensions, options |-> NoBarcodeOptions,
     boxesPerRow |-> 0, boxesPerColumn |-> 0, boxesPerPage |-> 0,
     i |-> 0, currentPage |-> [kind |-> "fin", v |-> 0]]

----------------------------------------------------------------------------
(* calculateLayout *)

\* Math.floor(a / b) for b # 0
FloorDiv(a, b) == IF b > 0 THEN a \div b ELSE (0 - a) \div (0 - b)

\* Math.ceil(a / b) for b # 0
CeilDiv(a, b) == 0 - FloorDiv(0 - a, b)

\* x / 2, exact because every length of the model is a multiple of 0.1 mm
Half(x) == x \div 2

Max(a, b) == IF a >= b THEN a ELSE b
Min(a, b) == IF a <= b THEN a ELSE b

\* options.boxSpacing || 10
BoxSpacingOf(o) == OrDefault(o.boxSpacing, 1000)

\* options.rowSpacing || options.boxSpacing || 10
RowSpacingOf(o) == OrDefault(o.rowSpacing, OrDefault(o.boxSpacing, 1000))

FooterHeight_Always(o) == 3000

\* options.showFooter !== false ? 30 : 0
FooterHeight(o) == IF o.showFooter = Some(FALSE) THEN 0 ELSE 3000

\* options.boxesPerRow && options.boxesPerColumn
ManualLayout(o) ==
    IsSet(o.boxesPerRow) /\ o.boxesPerRow[1] # 0
    /\ IsSet(o.boxesPerColumn) /\ o.boxesPerColumn[1] # 0

AutoBoxesPerRow(pageWidth, boxWidth, boxSpacing) ==
    FloorDiv(pageWidth - boxSpacing, boxWidth + boxSpacing)

AutoBoxesPerColumn_NoGap(availableHeight, boxHeight, rowSpacing) ==
    FloorDiv(availableHeight, boxHeight + rowSpacing)

AutoBoxesPerColumn(availableHeight, boxHeight, rowSpacing) ==
    FloorDiv(availableHeight - 1000, boxHeight + rowSpacing)

calculateLayout(o) ==
    LET pageDims == getPageDimensions(o.pageSize[1], o.orientation[1])
        boxSpacing == BoxSpacingOf(o)
        rowSpacing == RowSpacingOf(o)
        availableHeight == pageDims.height - FooterHeight(o)
        boxWidth == o.boxWidth[1]
        boxHeight == o.boxHeight[1]
        boxesPerRow == IF ManualLayout(o) THEN o.boxesPerRow[1]
                       ELSE AutoBoxesPerRow(pageDims.width, boxWidth, boxSpacing)
        boxesPerColumn == IF ManualLayout(o) THEN o.boxesPerColumn[1]
                          ELSE AutoBoxesPerColumn(availableHeight, boxHeight, rowSpacing)
        totalContentHeight == (boxesPerColumn * boxHeight) + ((boxesPerColumn - 1) * rowSpacing)
    IN [boxesPerRow |-> boxesPerRow,
        boxesPerColumn |-> boxesPerColumn,
        boxesPerPage |-> boxesPerRow * boxesPerColumn,
        horizontalMargin |->
            Half(pageDims.width
                 - ((boxesPerRow * boxWidth) + ((boxesPerRow - 1) * boxSpacing))),
        verticalMargin |-> Max(500, Half(availableHeight - totalContentHeight))]

\* The value of layout before calculateLayout has run
NoLayout ==
    [boxesPerRow |-> 0, boxesPerColumn |-> 0, boxesPerPage |-> 0,
     horizontalMargin |-> 0, verticalMargin |-> 0]

----------------------------------------------------------------------------
(* generatePDF: the pagination loop *)

Opts == MergeOptions(options)

\* opts.useQuantityRepeat && opts.quantityRepeat ? opts.quantityRepeat : 1
RepeatCount(o) ==
    IF o.useQuantityRepeat = Some(TRUE) /\ IsSet(o.quantityRepeat) /\ o.quantityRepeat[1] # 0
    THEN o.quantityRepeat[1]
    ELSE 1

\* setData.length * repeatCount
TotalBoxes(setData, repeatCount) == Len(setData) * repeatCount

NumPagesForSet_Floor(totalBoxes, boxesPerPage) ==
    IF boxesPerPage # 0 THEN [kind |-> "fin", v |-> FloorDiv(totalBoxes, boxesPerPage)]
    ELSE IF totalBoxes > 0 THEN [kind |-> "inf", v |-> 0]
    ELSE [kind |-> "nan", v |-> 0]

\* Math.ceil(totalBoxes / layout.boxesPerPage): finite, or Infinity (n / 0), or NaN (0 / 0)
NumPagesForSet(totalBoxes, boxesPerPage) ==
    IF boxesPerPage # 0 THEN [kind |-> "fin", v |-> CeilDiv(totalBoxes, boxesPerPage)]
    ELSE IF totalBoxes > 0 THEN [kind |-> "inf", v |-> 0]
    ELSE IF totalBoxes < 0 THEN [kind |-> "neginf", v |-> 0]
    ELSE [kind |-> "nan", v |-> 0]

PageLoopCond_Inclusive(p, numPagesForSet) ==
    numPagesForSet.kind = "inf" \/ (numPagesForSet.kind = "fin" /\ p <= numPagesForSet.v)

\* pageNum < numPagesForSet
PageLoopCond(p, numPagesForSet) ==
    numPagesForSet.kind = "inf" \/ (numPagesForSet.kind = "fin" /\ p < numPagesForSet.v)

NumPagesOfSet(s) ==
    NumPagesForSet(TotalBoxes(sets[s + 1], RepeatCount(Opts)), layout.boxesPerPage)

\* The next iteration <<setIndex, pageNum>> of the two nested loops whose conditions hold,
\* starting the tests at <<s, p>>; setIndex = sets.length when the loops are over
RECURSIVE NextPage(_, _)
NextPage(s, p) ==
    IF s >= Len(sets) THEN <<s, 0>>
    ELSE IF PageLoopCond(p, NumPagesOfSet(s)) THEN <<s, p>>
    ELSE NextPage(s + 1, 0)

\* pageNum * layout.boxesPerPage
StartBoxIndex(p, boxesPerPage) == p * boxesPerPage

\* Math.min(startBoxIndex + layout.boxesPerPage, totalBoxes)
EndBoxIndex(startBoxIndex, boxesPerPage, totalBoxes) ==
    Min(startBoxIndex + boxesPerPage, totalBoxes)

DataIndex_Wrong(boxIndex, repeatCount) == boxIndex \div (repeatCount + 1)

\* Math.floor(boxIndex / repeatCount)
DataIndex(boxIndex, repeatCount) == FloorDiv(boxIndex, repeatCount)

NeedsAddPage_PerSet(first, p) == p > 0

\* if (!isFirstPage) pdf.addPage()
NeedsAddPage(first, p) == ~first

\* The text `unknown-${index}`
Unknown(index) == [t |-> "unknown", v |-> index]

\* row['Unit Serial Number'] || row.serialNumber || `unknown-${index}`
SerialOf(row, index) ==
    IF Truthy(row.UnitSerialNumber) THEN row.UnitSerialNumber
    ELSE IF Truthy(row.serialNumber) THEN row.serialNumber
    ELSE Unknown(index)

\* row['QR Code Text'] || row.qrCodeText || fallback
QrTextOf(row, fallback) ==
    IF Truthy(row.QRCodeText) THEN row.QRCodeText
    ELSE IF Truthy(row.qrCodeText) THEN row.qrCodeText
    ELSE fallback

\* row['Count'] || row.count || (index + 1).toString(), as `${count}.` prints it
CountLabelOf(row, index) ==
    IF Truthy(row.Count) THEN row.Count
    ELSE IF Truthy(row.count) THEN row.count
    ELSE NumCell(index + 1)

\* The promise of one box: QRCode.toDataURL(qrText).then(callback), with what the
\* callback captures; ok is whether the encoder accepts the row's text
BoxPromise(s, boxIndex, startBoxIndex, repeatCount) ==
    LET dataIndex == DataIndex(boxIndex, repeatCount)
        row == sets[s + 1][dataIndex + 1]
        serial == SerialOf(row, dataIndex)
    IN [setIndex |-> s, boxIndex |-> boxIndex, startBoxIndex |-> startBoxIndex,
        dataIndex |-> dataIndex, row |-> row.id, ok |-> row.encodable,
        serial |-> serial, qrText |-> QrTextOf(row, serial),
        count |-> CountLabelOf(row, dataIndex)]

\* a % b of JavaScript for a >= 0 and b # 0: the remainder has the sign of a
JsRem(a, b) == IF b > 0 THEN a % b ELSE a % (0 - b)

NoQty == [text |-> "", n |-> 0]

\* localBoxIndex % layout.boxesPerRow
ColOf(localBoxIndex) == JsRem(localBoxIndex, layout.boxesPerRow)

RowNumOf_Ceil(localBoxIndex) == CeilDiv(localBoxIndex, layout.boxesPerRow)

\* Math.floor(localBoxIndex / layout.boxesPerRow)
RowNumOf(localBoxIndex) == FloorDiv(localBoxIndex, layout.boxesPerRow)

\* What the callback of a box draws: border, count, serial and code image
BoxOp(pr) ==
    LET localBoxIndex == pr.boxIndex - pr.startBoxIndex
        col == ColOf(localBoxIndex)
        rowNum == RowNumOf(localBoxIndex)
    IN [kind |-> "box", setIndex |-> pr.setIndex, boxIndex |-> pr.boxIndex,
        slot |-> localBoxIndex, col |-> col, rowNum |-> rowNum,
        x |-> layout.horizontalMargin + (col * (Opts.boxWidth[1] + BoxSpacingOf(Opts))),
        y |-> layout.verticalMargin + (rowNum * (Opts.boxHeight[1] + RowSpacingOf(Opts))),
        row |-> pr.row, image |-> TRUE, qty |-> NoQty,
        serial |-> pr.serial, qrText |-> pr.qrText, count |-> pr.count]

QtyText_PerSet(o, d) ==
    IF IsSet(o.customQty) /\ o.customQty[1] # "" THEN [text |-> o.customQty[1], n |-> 0]
    ELSE [text |-> "", n |-> Len(sets[1])]

\* opts.customQty || `${data.length}`
QtyText(o, d) ==
    IF IsSet(o.customQty) /\ o.customQty[1] # "" THEN [text |-> o.customQty[1], n |-> 0]
    ELSE [text |-> "", n |-> Len(d)]

FooterOp(qty) ==
    [kind |-> "footer", setIndex |-> 0, boxIndex |-> 0, slot |-> 0, col |-> 0, rowNum |-> 0,
     x |-> 0, y |-> 0, row |-> 0, image |-> FALSE, qty |-> qty,
     serial |-> NoCell, qrText |-> NoCell, count |-> NoCell]

\* jsPDF: a drawing call appends to the current page
Draw(doc, op) == [doc EXCEPT !.pages[doc.cur] = Append(@, op)]

\* jsPDF: addPage appends an empty page and makes it the current page
AddPage(doc) == [pages |-> Append(doc.pages, <<>>), cur |-> Len(doc.pages) + 1]

\* The footer loop: setPage(i + 1) and the footer texts, for i < totalPagesCreated
RECURSIVE DrawFooters(_, _, _, _)
DrawFooters(doc, i, n, qty) ==
    IF i >= n THEN doc
    ELSE DrawFooters(Draw([doc EXCEPT !.cur = i + 1], FooterOp(qty)), i + 1, n, qty)

----------------------------------------------------------------------------
(* generateIllustratorLayout and generateEPSLayout *)

\* The text ''
EmptyString == [t |-> "empty", v |-> 0]

\* The <g> element that data.forEach writes for the row at index
IllustratorBox(row, index, o) ==
    LET padding == BoxSpacingOf(o)
        boxesPerRow == OrDefault(o.boxesPerRow, 5)
        col == JsRem(index, boxesPerRow)
        rowNum == FloorDiv(index, boxesPerRow)
    IN [index |-> index, row |-> row.id, col |-> col, rowNum |-> rowNum,
        x |-> padding + (col * (o.boxWidth[1] + padding)),
        y |-> padding + (rowNum * (o.boxHeight[1] + padding)),
        serial |-> SerialOf(row, index), qrText |-> QrTextOf(row, EmptyString),
        count |-> CountLabelOf(row, index)]

\* The SVG text: one <g> per row and, unless showFooter is false, one footer
generateIllustratorLayout(d, o) ==
    [boxes |-> [k \in 1..Len(d) |-> IllustratorBox(d[k], k - 1, o)],
     footer |-> IF o.showFooter # Some(FALSE) THEN Some(QtyText(o, d)) ELSE None]

\* return "EPS generation placeholder": a text that draws no box and no footer
generateEPSLayout(d, o) == [boxes |-> <<>>, footer |-> None]

----------------------------------------------------------------------------
(* Inputs *)

\* Row i of a sheet with the columns Count, Unit Serial Number and QR Code Text
Row(i, c, enc) ==
    [id |-> i, Count |-> c, count |-> NoCell, encodable |-> enc,
     UnitSerialNumber |-> Text(10 + i), serialNumber |-> NoCell,
     QRCodeText |-> Text(20 + i), qrCodeText |-> NoCell]

\* Row i with the three cells left empty
BareRow(i, enc) ==
    [Row(i, NoCell, enc) EXCEPT !.UnitSerialNumber = NoCell, !.QRCodeText = NoCell]

\* The Count cells of the rows given to generatePDF
PdfCounts == {NumCell(1), NumCell(2)}

\* An input of n rows with the Count cells cs; row bad (if any: the first or the last)
\* carries a text the encoder rejects, row bare (if any: the last) has its cells empty
PdfData(n, cs, bad, bare) ==
    [i \in 1..n |-> IF i = bare THEN BareRow(i, i # bad) ELSE Row(i, cs[i], i # bad)]

\* Small pages, so that a page holds few boxes: 70 x 80 mm, boxes of 20 x 10 mm
SmallPage == PageObject(7000, 8000)
SmallBox == [NoOptions EXCEPT !.pageSize = Some(SmallPage), !.boxWidth = Some(2000),
                              !.boxHeight = Some(1000)]

\* Layouts whose page holds at most 2 boxes, used with every repeat setting
SmallLayouts ==
    { [SmallBox EXCEPT !.boxesPerRow = Some(1), !.boxesPerColumn = Some(1)],
      [SmallBox EXCEPT !.boxesPerRow = Some(2), !.boxesPerColumn = Some(1),
                       !.showFooter = Some(FALSE)],
      [NoOptions EXCEPT !.boxWidth = Some(25000)],                   \* wider than A4
      [SmallBox EXCEPT !.boxesPerRow = Some(0 - 1), !.boxesPerColumn = Some(2)] }

\* Layouts used without repeat: two whose page holds 4 boxes or more, and one with a
\* custom quantity text
LargeLayouts ==
    { SmallBox,                                                      \* 2 x 2 with footer
      [SmallBox EXCEPT !.customQty = Some("12"), !.boxesPerRow = Some(1),
                       !.boxesPerColumn = Some(2)],
      [NoOptions EXCEPT !.showFooter = Some(FALSE)] }                \* A4, 3 x 7

\* <<useQuantityRepeat, quantityRepeat>>
Repeats ==
    { <<None, None>>, <<Some(TRUE), Some(2)>>, <<Some(TRUE), Some(3)>>,
      <<Some(FALSE), Some(3)>>, <<Some(TRUE), Some(0)>> }

\* Options with a box width, a box height or a spacing that is not positive, one box
\* to a page
NonPositiveLayouts ==
    { [SmallBox EXCEPT !.boxWidth = Some(0), !.boxesPerRow = Some(1),
                       !.boxesPerColumn = Some(1)],
      [SmallBox EXCEPT !.boxHeight = Some(0 - 1000), !.boxSpacing = Some(0 - 500),
                       !.boxesPerRow = Some(1), !.boxesPerColumn = Some(1)] }

PdfOptions ==
    { [l EXCEPT !.useQuantityRepeat = r[1], !.quantityRepeat = r[2]] :
        l \in SmallLayouts, r \in Repeats }
    \cup LargeLayouts \cup NonPositiveLayouts

\* Layouts derived from the page, used with rows that all encode: 3 x 1 on a landscape
\* page with a footer and both spacings supplied, and 1 x 2 without footer with rows
\* 1 mm apart
AutoLayouts ==
    { [SmallBox EXCEPT !.orientation = Some("landscape"), !.boxSpacing = Some(500),
                       !.rowSpacing = Some(1500)],
      [NoOptions EXCEPT !.pageSize = Some(PageObject(4500, 6300)),
                        !.boxWidth = Some(3000), !.boxHeight = Some(2000),
                        !.boxSpacing = Some(500), !.rowSpacing = Some(100),
                        !.showFooter = Some(FALSE)] }

----------------------------------------------------------------------------
(* QRCodeGenerator.tsx: the component's state *)

\* The useState values of the first render; lengths in 0.01 mm, null is None
InitialUiState ==
    [boxWidth |-> 5000, boxHeight |-> 3000, boxSpacing |-> 1000, orientation |-> "portrait",
     pageSize |-> "a4", customWidth |-> 21000, customHeight |-> 29700,
     boxesPerRow |-> None, boxesPerColumn |-> None, boxesPerPage |-> 25,
     previewPage |-> 0, showFooter |-> TRUE, customQty |-> ""]

----------------------------------------------------------------------------
(* ExcelUploader.tsx: the component's state *)

\* No file submitted yet: no handleFile call, nothing passed to onDataLoaded,
\* isLoading false
NoUploader == [calls |-> <<>>, loaded |-> None, isLoading |-> FALSE]

NewDocument == [pages |-> << <<>> >>, cur |-> 1]

Init ==
    /\ \E n \in 0..MaxRows : \E cs \in [1..n -> PdfCounts] :
          \/ \E bad \in {0, 1, n} \cap (0..n) :
                \E bare \in (IF bad = 0 THEN {0, n} ELSE {0}) :
                    /\ data = PdfData(n, cs, bad, bare)
                    /\ options \in PdfOptions
          \/ /\ data = PdfData(n, cs, 0, 0)
             /\ options \in AutoLayouts
    /\ pc = "start"
    /\ sets = <<>>
    /\ layout = NoLayout
    /\ setIndex = 0
    /\ pageNum = 0
    /\ isFirstPage = TRUE
    /\ totalPagesCreated = 0
    /\ promises = {}
    /\ rejected = FALSE
    /\ pdf = NewDocument
    /\ svg = None
    /\ eps = None
    /\ positions = NoPositions
    /\ qrPageDims = NoDimensions
    /\ barcode = NoBarcode
    /\ ui = InitialUiState
    /\ uploader = NoUploader

----------------------------------------------------------------------------
(* generatePDF: the steps between two awaits *)

\* Lines 1122-1211: merge the options, detect the sets, compute the layout, set up the font
OptionsAfterSpread_Assign(o) == MergeOptions(o)

\* { ...defaultOptions, ...options } builds a new object; the caller's options object
\* is only read
OptionsAfterSpread(o) == o

Start ==
    /\ pc = "start"
    /\ options' = OptionsAfterSpread(options)
    /\ positions' = calculateContentPositions(Opts)
    /\ qrPageDims' = getPageDimensions(Opts.pageSize[1], Opts.orientation[1])
    /\ sets' = detectSets(data)
    /\ layout' = calculateLayout(Opts)
    /\ pc' = "loop"
    /\ UNCHANGED <<barcode, svg, eps, data, setIndex, pageNum, isFirstPage,
                   totalPagesCreated, promises, rejected, pdf, ui, uploader>>

\* A page loop without end (numPagesForSet is Infinity) is followed for MaxPages pages;
\* beyond them it goes on turning, with the document and the counters left as they are
BeyondMaxPages(s) == NumPagesOfSet(s).kind = "inf" /\ totalPagesCreated >= MaxPages

\* Lines 1214-1302: enter the next page of the loops, add it to the document and issue
\* one encode request per box of the page, up to await Promise.all(promises); promises
\* holds every request whose callback has not run yet
BeginPage ==
    /\ pc = "loop"
    /\ LET np == NextPage(setIndex, pageNum)
           s == np[1]
           p == np[2]
       IN /\ s < Len(sets)
          /\ LET repeatCount == RepeatCount(Opts)
                 totalBoxes == TotalBoxes(sets[s + 1], repeatCount)
                 startBoxIndex == StartBoxIndex(p, layout.boxesPerPage)
                 endBoxIndex == EndBoxIndex(startBoxIndex, layout.boxesPerPage, totalBoxes)
             IN /\ setIndex' = s
                /\ pageNum' = p
                /\ pdf' = IF NeedsAddPage(isFirstPage, p) /\ ~BeyondMaxPages(s)
                          THEN AddPage(pdf) ELSE pdf
                /\ isFirstPage' = FALSE
                /\ totalPagesCreated' = IF BeyondMaxPages(s) THEN totalPagesCreated
                                        ELSE totalPagesCreated + 1
                /\ promises' = promises \cup
                                 { BoxPromise(s, b, startBoxIndex, repeatCount) :
                                     b \in startBoxIndex..(endBoxIndex - 1) }
                /\ rejected' = FALSE
                /\ pc' = "await"
    /\ UNCHANGED <<qrPageDims, barcode, positions, svg, eps, data, options, sets, layout,
                   ui, uploader>>

\* Lines 1254-1297: an encode request completes and its callback draws the box
EncodeResolved ==
    /\ pc \in {"await", "failed"}
    /\ \E pr \in promises :
        /\ pr.ok
        /\ pdf' = Draw(pdf, BoxOp(pr))
        /\ promises' = promises \ {pr}
    /\ UNCHANGED <<qrPageDims, barcode, positions, svg, eps, data, options, pc, sets,
                   layout, setIndex, pageNum, isFirstPage, totalPagesCreated, rejected, ui,
                   uploader>>

\* Line 1254: the encoder rejects the text; the callback is skipped and the promise rejects
EncodeRejected ==
    /\ pc \in {"await", "failed"}
    /\ \E pr \in promises :
        /\ ~pr.ok
        /\ promises' = promises \ {pr}
    /\ rejected' = TRUE
    /\ UNCHANGED <<qrPageDims, barcode, positions, svg, eps, data, options, pc, sets,
                   layout, setIndex, pageNum, isFirstPage, totalPagesCreated, pdf, ui,
                   uploader>>

AllSettled_NoAwait(pending) == TRUE

\* await Promise.all(promises) resumes once no promise of the page is pending
AllSettled(pending) == pending = {}

\* Line 1302: every promise of the page is fulfilled; the page loop goes on
AwaitAllResolved ==
    /\ pc = "await"
    /\ AllSettled(promises)
    /\ ~rejected
    /\ pageNum' = IF BeyondMaxPages(setIndex) /\ pageNum >= MaxPages THEN pageNum
                ELSE pageNum + 1
    /\ pc' = "loop"
    /\ UNCHANGED <<qrPageDims, barcode, positions, svg, eps, data, options, sets, layout,
                   setIndex, isFirstPage, totalPagesCreated, promises, rejected, pdf, ui,
                   uploader>>

\* Line 1302: Promise.all rejects with the first rejection and generatePDF throws
AwaitAllRejected ==
    /\ pc = "await"
    /\ rejected
    /\ pc' = "failed"
    /\ UNCHANGED <<qrPageDims, barcode, positions, svg, eps, data, options, sets, layout,
                   setIndex, pageNum, isFirstPage, totalPagesCreated, promises, rejected,
                   pdf, ui, uploader>>

\* Lines 1306-1329: the loops are over; write the footers and return the document
Finish ==
    /\ pc = "loop"
    /\ NextPage(setIndex, pageNum)[1] >= Len(sets)
    /\ pdf' = IF Opts.showFooter # Some(FALSE)
              THEN DrawFooters(pdf, 0, totalPagesCreated, QtyText(Opts, data))
              ELSE pdf
    /\ setIndex' = Len(sets)
    /\ pc' = "done"
    /\ UNCHANGED <<qrPageDims, barcode, positions, svg, eps, data, options, sets, layout,
                   pageNum, isFirstPage, totalPagesCreated, promises, rejected, ui,
                   uploader>>

\* Lines 1388-1462: the same data and options exported as SVG, once the PDF is made
GenerateIllustratorLayout ==
    /\ pc = "done"
    /\ svg = None
    /\ svg' = Some(generateIllustratorLayout(data, Opts))
    /\ UNCHANGED <<qrPageDims, barcode, positions, eps, pdf, promises, rejected, pc, data,
                   options, sets, layout, setIndex, pageNum, isFirstPage, totalPagesCreated,
                   ui, uploader>>

\* Lines 1083-1086: the same data and options exported as EPS, once the PDF is made
GenerateEPSLayout ==
    /\ pc = "done"
    /\ eps = None
    /\ eps' = Some(generateEPSLayout(data, Opts))
    /\ UNCHANGED <<qrPageDims, barcode, positions, svg, pdf, promises, rejected, pc, data,
                   options, sets, layout, setIndex, pageNum, isFirstPage, totalPagesCreated,
                   ui, uploader>>

Next ==
    \/ Start
    \/ BeginPage
    \/ EncodeResolved
    \/ EncodeRejected
    \/ AwaitAllResolved
    \/ AwaitAllRejected
    \/ Finish
    \/ GenerateIllustratorLayout
    \/ GenerateEPSLayout

Spec == Init /\ [][Next]_vars

----------------------------------------------------------------------------
(* Reading a document *)

BoxOps(page) == { i \in DOMAIN page : page[i].kind = "box" }
FooterOps(page) == { i \in DOMAIN page : page[i].kind = "footer" }

\* The boxes of a page occupy the slots 0 .. k-1, one box per slot
SlotsFilled(page) ==
    \A j \in 0..(Cardinality(BoxOps(page)) - 1) :
        Cardinality({ i \in BoxOps(page) : page[i].slot = j }) = 1

\* The rows a page shows, slot by slot
ReadPage(page) ==
    [j \in 1..Cardinality(BoxOps(page)) |->
        page[CHOOSE i \in BoxOps(page) : page[i].slot = j - 1].row]

\* The rows a document shows, page by page and slot by slot
RECURSIVE ReadPages(_, _)
ReadPages(pages, n) ==
    IF n = 0 THEN <<>> ELSE ReadPages(pages, n - 1) \o ReadPage(pages[n])

\* The input rows in order, each repeated r consecutive times
ExpandedInput(d, r) == [b \in 1..(Len(d) * r) |-> d[((b - 1) \div r) + 1].id]

\* ceil(a / b) for a >= 0 and b > 0
CeilOf(a, b) == (a + b - 1) \div b

RECURSIVE SumOfSetPages(_, _, _)
SumOfSetPages(n, r, k) ==
    IF n = 0 THEN 0 ELSE SumOfSetPages(n - 1, r, k) + CeilOf(Len(sets[n]) * r, k)

\* The run has computed its layout, the page has room for a box, and r >= 1
ValidRun == pc # "start" /\ layout.boxesPerPage > 0 /\ RepeatCount(Opts) >= 1

----------------------------------------------------------------------------
(* Claims about generatePDF's pagination *)

\* C1: with boxesPerPage > 0 and repeat count r >= 1, the placed boxes read page by page
\* and slot by slot are exactly the input rows in order, each repeated r consecutive
\* times; box b of a set shows row floor(b / r) of that set, no row is skipped and none
\* is shown more than r times.
C1_PlacedBoxesReproduceInput ==
    ValidRun =>
        LET r == RepeatCount(Opts)
        IN /\ \A p \in DOMAIN pdf.pages : \A i \in BoxOps(pdf.pages[p]) :
                LET op == pdf.pages[p][i]
                IN op.row = sets[op.setIndex + 1][(op.boxIndex \div r) + 1].id
           /\ \A k \in 1..Len(data) :
                Cardinality({ b \in UNION { { <<p, i>> : i \in BoxOps(pdf.pages[p]) } :
                                            p \in DOMAIN pdf.pages } :
                              pdf.pages[b[1]][b[2]].row = data[k].id }) <= r
           /\ pc = "done" =>
                /\ \A p \in DOMAIN pdf.pages : SlotsFilled(pdf.pages[p])
                /\ ReadPages(pdf.pages, Len(pdf.pages)) = ExpandedInput(data, r)

\* C1 witness: quantityRepeat = 3 on 4 rows in two sets, 12 boxes placed
C1_Witness ==
    /\ pc = "done" /\ ValidRun
    /\ RepeatCount(Opts) = 3 /\ Len(data) = 4 /\ Len(sets) = 2
    /\ Len(ReadPages(pdf.pages, Len(pdf.pages))) = 12

\* C2: with boxesPerPage = k > 0 and r >= 1, the number of pages created is the sum over
\* the sets of ceil(setRowCount * r / k); with a single set and r = 1 every page but the
\* last holds k boxes and the last holds N - (pages - 1) * k; 47 rows with k = 21 give 3
\* pages, the third holding 5 boxes.
C2_PageCount ==
    /\ NumPagesForSet(47, 21) = [kind |-> "fin", v |-> 3]
    /\ EndBoxIndex(StartBoxIndex(2, 21), 21, 47) - StartBoxIndex(2, 21) = 5
    /\ (pc = "done" /\ ValidRun) =>
        LET r == RepeatCount(Opts)
            k == layout.boxesPerPage
            n == SumOfSetPages(Len(sets), r, k)
        IN /\ totalPagesCreated = n
           /\ Len(pdf.pages) = Max(1, n)
           /\ (Len(sets) = 1 /\ r = 1 /\ n >= 1) =>
                /\ n = CeilOf(Len(data), k)
                /\ \A p \in 1..(n - 1) : Cardinality(BoxOps(pdf.pages[p])) = k
                /\ Cardinality(BoxOps(pdf.pages[n])) = Len(data) - ((n - 1) * k)

\* C2 witness: a single set of 3 rows on pages of 2 boxes, the last page holding 1 box
C2_Witness ==
    /\ pc = "done" /\ ValidRun
    /\ Len(sets) = 1 /\ RepeatCount(Opts) = 1 /\ Len(data) = 3
    /\ layout.boxesPerPage = 2 /\ totalPagesCreated = 2
    /\ Cardinality(BoxOps(pdf.pages[2])) = 1

\* C3: the first box of every set is placed in slot 0 (column 0, row 0) of a page that
\* holds no box of an earlier set, even when the previous set's last page had free slots;
\* once the run is done every set has its first box placed.
C3_SetStartsFreshPage ==
    ValidRun =>
        /\ \A p \in DOMAIN pdf.pages : \A i \in BoxOps(pdf.pages[p]) :
            LET op == pdf.pages[p][i]
            IN op.boxIndex = 0 =>
                /\ op.slot = 0 /\ op.col = 0 /\ op.rowNum = 0
                /\ \A j \in BoxOps(pdf.pages[p]) :
                      pdf.pages[p][j].setIndex >= op.setIndex
        /\ pc = "done" =>
            \A s \in 1..Len(sets) : Len(sets[s]) > 0 =>
                \E p \in DOMAIN pdf.pages : \E i \in BoxOps(pdf.pages[p]) :
                    pdf.pages[p][i].setIndex = s - 1 /\ pdf.pages[p][i].boxIndex = 0

\* C3 witness: the first set leaves a slot free on its page of 2 and a second set follows
C3_Witness ==
    /\ pc = "done" /\ ValidRun
    /\ layout.boxesPerPage = 2 /\ RepeatCount(Opts) = 1
    /\ Len(sets) >= 2 /\ Len(sets[1]) = 1
    /\ Cardinality(BoxOps(pdf.pages[1])) = 1
    /\ Cardinality(BoxOps(pdf.pages[2])) >= 1

\* C7: when boxesPerPage <= 0 generatePDF aborts with an error before creating any page
\* or placing any box (stated for non-empty data; C9 covers the empty input).
C7_AbortsOnZeroCapacity ==
    (pc # "start" /\ layout.boxesPerPage <= 0 /\ data # <<>>) =>
        /\ pc # "done"
        /\ totalPagesCreated = 0
        /\ pdf = NewDocument

\* C8: when encoding one row's text fails, generation still completes; the box of that
\* row keeps its border and text and lacks only the code image, and every other box is
\* rendered as without the failure.
C8_EncodeFailureIsolated ==
    /\ pc # "failed"
    /\ (pc = "done" /\ ValidRun) =>
        /\ ReadPages(pdf.pages, Len(pdf.pages)) = ExpandedInput(data, RepeatCount(Opts))
        /\ \A p \in DOMAIN pdf.pages : \A i \in BoxOps(pdf.pages[p]) :
              pdf.pages[p][i].image = data[pdf.pages[p][i].row].encodable

----------------------------------------------------------------------------
(* detectSets on its own *)

SetCells ==
    { <<NoCell, NoCell>>, <<TextCell, NoCell>>, <<NumCell(1), NoCell>>,
      <<NumCell(2), NoCell>>, <<NumCell(3), NoCell>>, <<NoCell, NumCell(2)>>,
      <<NumCell(0), NumCell(1)>> }

\* An input of n rows; cs[i] = <<row['Count'], row.count>>
SetData(n, cs) ==
    [i \in 1..n |-> [id |-> i, Count |-> cs[i][1], count |-> cs[i][2], encodable |-> TRUE]]

InitDetect ==
    /\ \E n \in 0..MaxSetRows : \E cs \in [1..n -> SetCells] : data = SetData(n, cs)
    /\ options = NoOptions
    /\ pc = "detect"
    /\ sets = <<>>
    /\ layout = NoLayout
    /\ setIndex = 0
    /\ pageNum = 0
    /\ isFirstPage = TRUE
    /\ totalPagesCreated = 0
    /\ promises = {}
    /\ rejected = FALSE
    /\ pdf = NewDocument
    /\ svg = None
    /\ eps = None
    /\ positions = NoPositions
    /\ qrPageDims = NoDimensions
    /\ barcode = NoBarcode
    /\ ui = InitialUiState
    /\ uploader = NoUploader

\* const sets = detectSets(data)
DetectSets ==
    /\ pc = "detect"
    /\ sets' = detectSets(data)
    /\ pc' = "detected"
    /\ UNCHANGED <<qrPageDims, barcode, positions, svg, eps, data, options, layout,
                   setIndex, pageNum, isFirstPage, totalPagesCreated, promises, rejected,
                   pdf, ui, uploader>>

NextDetect == DetectSets

SpecDetect == InitDetect /\ [][NextDetect]_vars

RECURSIVE Flatten(_, _)
Flatten(ss, n) == IF n = 0 THEN <<>> ELSE Flatten(ss, n - 1) \o ss[n]

\* The 1-based positions in the input at which the returned sets start
RECURSIVE SetStarts(_, _)
SetStarts(ss, n) ==
    IF n = 0 THEN {} ELSE SetStarts(ss, n - 1) \cup {Len(Flatten(ss, n - 1)) + 1}

\* C4 as stated: the returned sets concatenated give back the input and no returned set
\* is empty, for every input including the empty one.
C4_PartitionNoEmptySet ==
    pc = "detected" =>
        /\ Flatten(sets, Len(sets)) = data
        /\ \A s \in 1..Len(sets) : Len(sets[s]) > 0

\* C4 amended: the returned sets concatenated give back the input; no returned set is
\* empty when the input is not empty, and the empty input gives one set, which is empty.
C4_Partition ==
    pc = "detected" =>
        /\ Flatten(sets, Len(sets)) = data
        /\ data # <<>> => \A s \in 1..Len(sets) : Len(sets[s]) > 0
        /\ data = <<>> => sets = << <<>> >>

\* C4 witness: an input of at least 3 rows split into at least 2 sets
C4_Witness == pc = "detected" /\ Len(data) >= 3 /\ Len(sets) >= 2

\* The count of a row as the claim reads it: 0 when missing or unparseable
ClaimedCount(row) == IF CountOf(row).nan THEN 0 ELSE CountOf(row).v

\* C5: a new set starts at row i exactly when i is not the first row and the row's count
\* equals 1 or is less than the previous row's count, a count being 0 when it is missing
\* or unparseable.
C5_ResetRule ==
    (pc = "detected" /\ data # <<>>) =>
        SetStarts(sets, Len(sets)) =
            {1} \cup { i \in 2..Len(data) :
                         \/ ClaimedCount(data[i]) = 1
                         \/ ClaimedCount(data[i]) < ClaimedCount(data[i - 1]) }

AllNonNumeric == \A i \in 1..Len(data) : CountOf(data[i]).nan
AllEqual == \A i, j \in 1..Len(data) : CountOf(data[i]) = CountOf(data[j])
OnlyIncreasing ==
    \A i \in 1..(Len(data) - 1) : Less(CountOf(data[i]), CountOf(data[i + 1]))

\* C6 as stated: counts that are all non-numeric, all equal or only increasing give
\* exactly one set holding the whole input.
C6_NoResetOneSet ==
    (pc = "detected" /\ (AllNonNumeric \/ AllEqual \/ OnlyIncreasing)) => sets = <<data>>

\* C6 amended: exactly one set holding the whole input is returned when the counts are
\* all non-numeric, or all equal and (with two rows or more) different from 1, or only
\* increasing with no row after the first counting 1.
C6_NoResetOneSetUnlessOne ==
    (/\ pc = "detected"
     /\ \/ AllNonNumeric
        \/ AllEqual /\ (Len(data) <= 1 \/ ~StrictEq(CountOf(data[1]), 1))
        \/ OnlyIncreasing /\ \A i \in 2..Len(data) : ~StrictEq(CountOf(data[i]), 1))
    => sets = <<data>>

\* C6 witness: three rows or more all counting 2, returned as one set
C6_Witness ==
    /\ pc = "detected" /\ Len(data) >= 3 /\ AllEqual
    /\ StrictEq(CountOf(data[1]), 2) /\ sets = <<data>>

----------------------------------------------------------------------------
(* calculateLayout on its own *)

LayoutOptions ==
    { [NoOptions EXCEPT !.pageSize = ps, !.orientation = ori, !.boxWidth = bw,
                        !.boxHeight = bh, !.boxSpacing = bs, !.rowSpacing = rs,
                        !.showFooter = sf, !.boxesPerRow = bpr, !.boxesPerColumn = bpc] :
        ps \in {None, Some(PageName("a3")), Some(PageName("letter")),
                Some(PageName("custom")), Some(PageName("legal")), Some(SmallPage)},
        ori \in {None, Some("portrait"), Some("landscape")},
        bw \in {None, Some(3000), Some(25000)},
        bh \in {None, Some(2000)},
        bs \in {None, Some(0), Some(500), Some(2000)},
        rs \in {None, Some(0), Some(1500)},
        sf \in {None, Some(TRUE), Some(FALSE)},
        bpr \in {None, Some(0), Some(2)},
        bpc \in {None, Some(3)} }

InitLayout ==
    /\ data = <<>>
    /\ options \in LayoutOptions
    /\ pc = "layout"
    /\ sets = <<>>
    /\ layout = NoLayout
    /\ setIndex = 0
    /\ pageNum = 0
    /\ isFirstPage = TRUE
    /\ totalPagesCreated = 0
    /\ promises = {}
    /\ rejected = FALSE
    /\ pdf = NewDocument
    /\ svg = None
    /\ eps = None
    /\ positions = NoPositions
    /\ qrPageDims = NoDimensions
    /\ barcode = NoBarcode
    /\ ui = InitialUiState
    /\ uploader = NoUploader

\* const layout = calculateLayout(opts)
CalcLayout ==
    /\ pc = "layout"
    /\ layout' = calculateLayout(Opts)
    /\ pc' = "laidout"
    /\ UNCHANGED <<qrPageDims, barcode, positions, svg, eps, data, options, sets, setIndex,
                   pageNum, isFirstPage, totalPagesCreated, promises, rejected, pdf, ui,
                   uploader>>

NextLayout == CalcLayout

SpecLayout == InitLayout /\ [][NextLayout]_vars

\* C10: without both manual overrides, boxesPerRow = floor((pageWidth - boxSpacing) /
\* (boxWidth + boxSpacing)), boxesPerColumn = floor((availableHeight - 10) / (boxHeight +
\* rowSpacing)) and boxesPerPage is their product, availableHeight being pageHeight less
\* 30 with the footer and pageHeight without it; A4 portrait, box 50 x 30, spacing 10,
\* no footer gives 3, 7 and 21.
C10_AutoLayout ==
    (pc = "laidout" /\ ~ManualLayout(Opts)) =>
        LET page == getPageDimensions(Opts.pageSize[1], Opts.orientation[1])
            availableHeight == IF Opts.showFooter = Some(FALSE) THEN page.height
                               ELSE page.height - 3000
            perRow == (page.width - BoxSpacingOf(Opts))
                          \div (Opts.boxWidth[1] + BoxSpacingOf(Opts))
            perColumn == (availableHeight - 1000)
                             \div (Opts.boxHeight[1] + RowSpacingOf(Opts))
        IN /\ layout.boxesPerRow = perRow
           /\ layout.boxesPerColumn = perColumn
           /\ layout.boxesPerPage = perRow * perColumn
           /\ options = [NoOptions EXCEPT !.showFooter = Some(FALSE)] =>
                /\ layout.boxesPerRow = 3
                /\ layout.boxesPerColumn = 7
                /\ layout.boxesPerPage = 21

\* C10 witness: the layout of A4 portrait, box 50 x 30, spacing 10, no footer
C10_Witness ==
    /\ pc = "laidout"
    /\ options = [NoOptions EXCEPT !.showFooter = Some(FALSE)]
    /\ layout.boxesPerPage = 21

----------------------------------------------------------------------------
(* Claims about the manual branch of calculateLayout *)

\* C11: with both manual overrides, boxesPerPage = boxesPerRow * boxesPerColumn, the
\* margins center the block (horizontally in the page width, vertically in the page
\* height less the footer band), and the horizontal and the vertical margin are both at
\* least 5 mm, also when the block is larger than the page.
C11_ManualLayoutMargins ==
    (pc = "laidout" /\ ManualLayout(Opts)) =>
        LET page == getPageDimensions(Opts.pageSize[1], Opts.orientation[1])
            availableHeight == IF Opts.showFooter = Some(FALSE) THEN page.height
                               ELSE page.height - 3000
            blockWidth == (Opts.boxesPerRow[1] * Opts.boxWidth[1])
                              + ((Opts.boxesPerRow[1] - 1) * BoxSpacingOf(Opts))
            blockHeight == (Opts.boxesPerColumn[1] * Opts.boxHeight[1])
                               + ((Opts.boxesPerColumn[1] - 1) * RowSpacingOf(Opts))
        IN /\ layout.boxesPerRow = Opts.boxesPerRow[1]
           /\ layout.boxesPerColumn = Opts.boxesPerColumn[1]
           /\ layout.boxesPerPage = Opts.boxesPerRow[1] * Opts.boxesPerColumn[1]
           /\ layout.horizontalMargin = Max(500, (page.width - blockWidth) \div 2)
           /\ layout.verticalMargin = Max(500, (availableHeight - blockHeight) \div 2)
           /\ layout.horizontalMargin >= 500
           /\ layout.verticalMargin >= 500

----------------------------------------------------------------------------
(* Claims about the footers of generatePDF *)

\* The pages of the document that the page loop created
CreatedPages == 1..totalPagesCreated

\* The quantity a footer shows: the custom text when one is set, else the number of rows
\* of the whole input
ExpectedQty ==
    IF IsSet(Opts.customQty) /\ Opts.customQty[1] # ""
    THEN [text |-> Opts.customQty[1], n |-> 0]
    ELSE [text |-> "", n |-> Len(data)]

\* C12: in the document generatePDF returns, with the footer enabled every page the page
\* loop created carries exactly one footer, written after all boxes of that page, showing
\* customQty when set and otherwise the number of rows of the whole input (not of a set);
\* with the footer disabled no page carries a footer. No footer is written before the
\* last box of the run is drawn.
C12_FooterPerPage ==
    /\ pc # "done" => \A i \in DOMAIN pdf.pages : FooterOps(pdf.pages[i]) = {}
    /\ pc = "done" =>
        /\ promises = {}
        /\ Opts.showFooter = Some(FALSE) =>
              \A i \in DOMAIN pdf.pages : FooterOps(pdf.pages[i]) = {}
        /\ Opts.showFooter # Some(FALSE) =>
              \A i \in CreatedPages :
                  LET page == pdf.pages[i]
                  IN /\ Cardinality(FooterOps(page)) = 1
                     /\ FooterOps(page) = {Len(page)}
                     /\ page[Len(page)].qty = ExpectedQty

\* C12 witness: a finished run over two sets and two pages or more with the footer
\* enabled and no custom quantity, whose first page holds a box and then its footer
C12_Witness ==
    /\ pc = "done"
    /\ Opts.showFooter # Some(FALSE)
    /\ ~IsSet(Opts.customQty)
    /\ Len(sets) >= 2
    /\ totalPagesCreated >= 2
    /\ BoxOps(pdf.pages[1]) # {}
    /\ FooterOps(pdf.pages[1]) = {Len(pdf.pages[1])}
    /\ FooterOps(pdf.pages[2]) # {}

----------------------------------------------------------------------------
(* Claims about the order of the drawing operations *)

\* C13: the sequence of drawing operations of a page does not depend on the order in
\* which the encode requests complete: on every page the boxes are written in slot
\* order, so that any two runs on the same data and options, of which the run whose
\* requests complete in the order they were issued is one, write the same sequence.
C13_DrawnInSlotOrder ==
    \A p \in DOMAIN pdf.pages :
        \A i, j \in BoxOps(pdf.pages[p]) :
            i < j => pdf.pages[p][i].slot < pdf.pages[p][j].slot

----------------------------------------------------------------------------
(* Claims about the three renderers *)

\* The boxes of the PDF document that show input row r, as <<page, operation>>
PdfBoxesOfRow(r) ==
    { b \in UNION { { <<p, i>> : i \in BoxOps(pdf.pages[p]) } : p \in DOMAIN pdf.pages } :
        pdf.pages[b[1]][b[2]].row = r }

\* The three outputs exist: generatePDF has returned and both layouts were generated
AllRendered == pc = "done" /\ ValidRun /\ IsSet(svg) /\ IsSet(eps)

\* C14: for the same data and options the SVG layout, the EPS layout and the PDF
\* document each render every input row, and each places a row in the same grid cell at
\* the same offsets from the top-left corner of the page as the others do.
C14_RenderersAgree ==
    AllRendered =>
        \A r \in 1..Len(data) :
            /\ PdfBoxesOfRow(r) # {}
            /\ \E k \in DOMAIN svg[1].boxes : svg[1].boxes[k].row = r
            /\ \E k \in DOMAIN eps[1].boxes : eps[1].boxes[k].row = r
            /\ \A b \in PdfBoxesOfRow(r) : \A k \in DOMAIN svg[1].boxes :
                  svg[1].boxes[k].row = r =>
                      LET op == pdf.pages[b[1]][b[2]]
                          g == svg[1].boxes[k]
                      IN op.col = g.col /\ op.rowNum = g.rowNum /\ op.x = g.x /\ op.y = g.y

----------------------------------------------------------------------------
(* calculateContentPositions on its own *)

PositionOptions ==
    { [NoOptions EXCEPT !.boxWidth = bw, !.boxHeight = bh, !.qrCodeSize = z,
                        !.qrCodeWidth = w, !.qrCodeHeight = h, !.serialToBoxGap = g[1],
                        !.serialToQrGap = g[2], !.qrToBoxGap = g[3]] :
        bw \in {None, Some(3000), Some(4200)},
        bh \in {None, Some(5000)},
        z \in {None, Some(0), Some(36), Some(80)},
        w \in {None, Some(0), Some(1800), Some(2600)},
        h \in {None, Some(0), Some(1800), Some(2000)},
        g \in {None, Some(0), Some(500)} \X {None, Some(0), Some(500)}
                 \X {None, Some(200)} }

InitPositions ==
    /\ data = <<>>
    /\ options \in PositionOptions
    /\ pc = "positions"
    /\ sets = <<>>
    /\ layout = NoLayout
    /\ setIndex = 0
    /\ pageNum = 0
    /\ isFirstPage = TRUE
    /\ totalPagesCreated = 0
    /\ promises = {}
    /\ rejected = FALSE
    /\ pdf = NewDocument
    /\ svg = None
    /\ eps = None
    /\ positions = NoPositions
    /\ qrPageDims = NoDimensions
    /\ barcode = NoBarcode
    /\ ui = InitialUiState
    /\ uploader = NoUploader

\* const positions = calculateContentPositions(opts)
CalcPositions ==
    /\ pc = "positions"
    /\ positions' = calculateContentPositions(options)
    /\ pc' = "positioned"
    /\ UNCHANGED <<qrPageDims, barcode, data, options, sets, layout, setIndex, pageNum,
                   isFirstPage, totalPagesCreated, promises, rejected, pdf, svg, eps, ui,
                   uploader>>

NextPositions == CalcPositions

SpecPositions == InitPositions /\ [][NextPositions]_vars

\* boxHeight * qrCodeSize of the merged options
RatioOfOpts == (Opts.boxHeight[1] * Opts.qrCodeSize[1]) \div 100

\* C15 as stated: whenever qrCodeWidth and qrCodeHeight are given they are the code's
\* width and height and qrCodeSize is ignored; otherwise width = height = boxHeight *
\* qrCodeSize.
C15_ExplicitSizeWheneverGiven ==
    pc = "positioned" =>
        IF IsSet(options.qrCodeWidth) /\ IsSet(options.qrCodeHeight)
        THEN /\ positions.qrWidth = options.qrCodeWidth[1]
             /\ positions.qrHeight = options.qrCodeHeight[1]
        ELSE /\ positions.qrWidth = RatioOfOpts
             /\ positions.qrHeight = RatioOfOpts

\* C15 amended: when qrCodeWidth and qrCodeHeight are both given and both non-zero they
\* are the code's width and height and qrCodeSize is ignored; otherwise, also when one
\* of them is missing or 0, width = height = boxHeight * qrCodeSize.
C15_ExplicitSizeWhenBothNonZero ==
    pc = "positioned" =>
        IF /\ IsSet(options.qrCodeWidth) /\ options.qrCodeWidth[1] # 0
           /\ IsSet(options.qrCodeHeight) /\ options.qrCodeHeight[1] # 0
        THEN /\ positions.qrWidth = options.qrCodeWidth[1]
             /\ positions.qrHeight = options.qrCodeHeight[1]
        ELSE /\ positions.qrWidth = RatioOfOpts
             /\ positions.qrHeight = RatioOfOpts

\* C15 witness: width 26 and height 20 are given with a ratio that would give 40 x 40,
\* and the code is 26 x 20
C15_Witness ==
    /\ pc = "positioned"
    /\ options.qrCodeWidth = Some(2600) /\ options.qrCodeHeight = Some(2000)
    /\ options.qrCodeSize = Some(80) /\ options.boxHeight = Some(5000)
    /\ positions.qrWidth = 2600 /\ positions.qrHeight = 2000

\* The options of the state with another code size: width w, height h, ratio z
WithCodeSize(w, h, z) ==
    [options EXCEPT !.qrCodeWidth = w, !.qrCodeHeight = h, !.qrCodeSize = z]

\* C16: isValidLayout is false exactly when totalContentWidth > boxWidth, where
\* totalContentWidth is the two gaps before the code, the code width and the gap after
\* it; and among inputs that differ in the size of the code only, one whose code is at
\* least as wide as that of an input with isValidLayout = false has isValidLayout =
\* false too.
C16_ValidIffFitsAndMonotonic ==
    pc = "positioned" =>
        /\ positions.isValidLayout = FALSE <=> positions.totalContentWidth > Opts.boxWidth[1]
        /\ positions.totalContentWidth =
              positions.serialX + (positions.qrX - positions.serialX) + positions.qrWidth
                  + OrDefault(Opts.qrToBoxGap, 257)
        /\ \A w \in {None, Some(1800), Some(2600), Some(3400)} :
           \A h \in {None, Some(1800)} :
           \A z \in {None, Some(36), Some(80), Some(90)} :
              LET wider == calculateContentPositions(WithCodeSize(w, h, z))
              IN (wider.qrWidth >= positions.qrWidth /\ ~positions.isValidLayout)
                     => ~wider.isValidLayout

\* C16 witness: the content fills the box exactly (5 + 5 + 18 + 2 = 30 mm) and the
\* layout is valid, and a wider code of 26 mm makes it invalid
C16_Witness ==
    /\ pc = "positioned"
    /\ positions.totalContentWidth = 3000
    /\ Opts.boxWidth[1] = 3000
    /\ positions.isValidLayout
    /\ ~calculateContentPositions(WithCodeSize(Some(2600), Some(1800), None)).isValidLayout

----------------------------------------------------------------------------
(* Page-size resolution on its own, in both generators *)

\* Preset names as the QR generator spells them, as the barcode generator spells them,
\* a name neither knows, and explicit sizes
PageSizes ==
    { PageName(n) : n \in {"a4", "a3", "letter", "custom", "A4", "A3", "Letter", "legal"} }
    \cup { PageObject(w, h) : w \in {5000, 7000, 10000, 21000, 30000},
                              h \in {5000, 8000, 14800, 29700, 30000} }

InitPageSize ==
    /\ data = <<>>
    /\ \E ps \in PageSizes : \E ori \in {"portrait", "landscape"} :
          options = [NoOptions EXCEPT !.pageSize = Some(ps), !.orientation = Some(ori)]
    /\ pc = "pagesize"
    /\ sets = <<>>
    /\ layout = NoLayout
    /\ setIndex = 0
    /\ pageNum = 0
    /\ isFirstPage = TRUE
    /\ totalPagesCreated = 0
    /\ promises = {}
    /\ rejected = FALSE
    /\ pdf = NewDocument
    /\ svg = None
    /\ eps = None
    /\ positions = NoPositions
    /\ qrPageDims = NoDimensions
    /\ barcode = NoBarcode
    /\ ui = InitialUiState
    /\ uploader = NoUploader

\* qrCodeGenerator.ts: const pageDims = getPageDimensions(opts.pageSize, opts.orientation)
ResolveQrPage ==
    /\ pc \in {"pagesize", "barcode-resolved"}
    /\ qrPageDims' = getPageDimensions(options.pageSize[1], options.orientation[1])
    /\ pc' = IF pc = "pagesize" THEN "qr-resolved" ELSE "resolved"
    /\ UNCHANGED <<barcode, data, options, sets, layout, setIndex, pageNum, isFirstPage,
                   totalPagesCreated, promises, rejected, pdf, svg, eps, positions, ui,
                   uploader>>

\* barcodeGenerator.ts: const pageDimensions = getPageDimensions(opts.pageSize,
\* opts.orientation)
ResolveBarcodePage ==
    /\ pc \in {"pagesize", "qr-resolved"}
    /\ barcode' = [barcode EXCEPT !.pageDimensions =
                      barcodeGetPageDimensions(options.pageSize[1], options.orientation[1])]
    /\ pc' = IF pc = "pagesize" THEN "barcode-resolved" ELSE "resolved"
    /\ UNCHANGED <<qrPageDims, data, options, sets, layout, setIndex, pageNum, isFirstPage,
                   totalPagesCreated, promises, rejected, pdf, svg, eps, positions, ui,
                   uploader>>

NextPageSize == ResolveQrPage \/ ResolveBarcodePage

SpecPageSize == InitPageSize /\ [][NextPageSize]_vars

\* The size the claim gives a page: A4, A3 and Letter by name in either spelling, an
\* explicit pair itself, any other name A4; width and height swapped for landscape
ClaimedPage(pageSize, orientation) ==
    LET d == CASE pageSize.kind = "object" ->
                      [width |-> pageSize.width, height |-> pageSize.height]
               [] pageSize.kind \in {"a3", "A3"} -> [width |-> 29700, height |-> 42000]
               [] pageSize.kind \in {"letter", "Letter"} ->
                      [width |-> 21590, height |-> 27940]
               [] OTHER -> [width |-> 21000, height |-> 29700]
    IN IF orientation = "landscape" THEN [width |-> d.height, height |-> d.width] ELSE d

\* The names a generator's own type gives the presets
QrNames == {"a4", "a3", "letter", "custom"}
BarcodeNames == {"A4", "A3", "Letter"}

\* C17: page-size resolution maps A4 to 210 x 297, A3 to 297 x 420, Letter to 215.9 x
\* 279.4 and an explicit pair to itself, swaps width and height exactly for landscape,
\* and resolves an unknown name to A4; in the QR generator (for its names, unknown names
\* and explicit pairs) and in the barcode generator (for its names and unknown names).
C17_PageSizeResolution ==
    LET ps == options.pageSize[1]
        ori == options.orientation[1]
    IN /\ (pc \in {"qr-resolved", "resolved"} /\ ps.kind \notin BarcodeNames) =>
              qrPageDims = ClaimedPage(ps, ori)
       /\ (pc \in {"barcode-resolved", "resolved"} /\ ps.kind \notin QrNames
               /\ ps.kind # "object") =>
              barcode.pageDimensions = ClaimedPage(ps, ori)

----------------------------------------------------------------------------
(* Claims about the validation of the options *)

\* A box width, a box height or a supplied spacing that is zero or negative
NonPositiveConfig ==
    \/ Opts.boxWidth[1] <= 0
    \/ Opts.boxHeight[1] <= 0
    \/ Opts.boxSpacing[1] <= 0
    \/ Opts.rowSpacing[1] <= 0

\* C18: with a non-positive box width, box height or spacing generatePDF stops with a
\* configuration error before it creates a page or places a box: it never gets to the
\* page loop's first page and never returns a document.
C18_NonPositiveRejected ==
    (NonPositiveConfig /\ data # <<>>) =>
        /\ totalPagesCreated = 0
        /\ pdf = NewDocument
        /\ pc # "done"

----------------------------------------------------------------------------
(* Claims about the texts of a box *)

\* The texts the claim gives the box of input row r (1-based): the serial or
\* unknown-{r - 1}, the code text or that serial, the count or r
ClaimedSerial(r) ==
    IF Truthy(data[r].UnitSerialNumber) THEN data[r].UnitSerialNumber
    ELSE IF Truthy(data[r].serialNumber) THEN data[r].serialNumber
    ELSE [t |-> "unknown", v |-> r - 1]

ClaimedQrText(r) ==
    IF Truthy(data[r].QRCodeText) THEN data[r].QRCodeText
    ELSE IF Truthy(data[r].qrCodeText) THEN data[r].qrCodeText
    ELSE ClaimedSerial(r)

ClaimedCountLabel(r) ==
    IF Truthy(data[r].Count) THEN data[r].Count
    ELSE IF Truthy(data[r].count) THEN data[r].count
    ELSE NumCell(r)

\* The boxes of the PDF document carry the claimed texts
PdfBoxTextsAsClaimed ==
    \A p \in DOMAIN pdf.pages : \A i \in BoxOps(pdf.pages[p]) :
        LET op == pdf.pages[p][i]
        IN /\ op.serial = ClaimedSerial(op.row)
           /\ op.qrText = ClaimedQrText(op.row)
           /\ op.count = ClaimedCountLabel(op.row)

\* The boxes of the SVG layout carry the claimed texts
SvgBoxTextsAsClaimed ==
    IsSet(svg) =>
        \A k \in DOMAIN svg[1].boxes :
            LET g == svg[1].boxes[k]
            IN /\ g.serial = ClaimedSerial(g.row)
               /\ g.qrText = ClaimedQrText(g.row)
               /\ g.count = ClaimedCountLabel(g.row)

\* C19: every box of the PDF document and every box of the SVG layout shows the row's
\* serial or unknown-{index} when it has none, encodes the row's code text or that serial
\* when it has none, and is labelled with the row's count or the row's 1-based position
\* in the input when it has none; whichever set the row belongs to.
C19_BoxTexts == PdfBoxTextsAsClaimed /\ SvgBoxTextsAsClaimed

----------------------------------------------------------------------------
(* Claims about the grid of a page *)

----------------------------------------------------------------------------
(* Row pitch when only boxSpacing is supplied *)

\* C21: when the caller supplies a boxSpacing and no rowSpacing, the row pitch is
\* boxHeight + the supplied boxSpacing: in auto mode calculateLayout's boxesPerColumn
\* is floor((availableHeight - 10) / (boxHeight + boxSpacing)).
C21_RowPitchUsesBoxSpacing ==
    LET opts == Opts
        pageDims == getPageDimensions(opts.pageSize[1], opts.orientation[1])
        availableHeight == pageDims.height - FooterHeight(opts)
    IN (/\ pc = "laidout"
        /\ IsSet(options.boxSpacing) /\ options.boxSpacing[1] > 0
        /\ ~IsSet(options.rowSpacing)
        /\ ~ManualLayout(opts))
       => /\ RowSpacingOf(opts) = options.boxSpacing[1]
          /\ layout.boxesPerColumn
               = FloorDiv(availableHeight - 1000, opts.boxHeight[1] + options.boxSpacing[1])

----------------------------------------------------------------------------
(* Gaps of calculateContentPositions *)

\* A gap as C22 reads it: the supplied value, 0 included, else the default
ClaimedGap(m, d) == IF IsSet(m) THEN m[1] ELSE d

\* C22: calculateContentPositions returns serialX = serialToBoxGap, codeX = serialX +
\* serialToQrGap and totalContentWidth = serialX + serialToQrGap + codeWidth +
\* qrToBoxGap for every supplied gap >= 0, a gap of 0 included.
C22_GapsAsSupplied ==
    pc = "positioned" =>
        LET serialToBoxGap == ClaimedGap(options.serialToBoxGap, 310)
            serialToQrGap == ClaimedGap(options.serialToQrGap, 630)
            qrToBoxGap == ClaimedGap(options.qrToBoxGap, 257)
        IN /\ positions.serialX = serialToBoxGap
           /\ positions.qrX = positions.serialX + serialToQrGap
           /\ positions.totalContentWidth
                = positions.serialX + serialToQrGap + positions.qrWidth + qrToBoxGap

----------------------------------------------------------------------------
(* Pages and encode callbacks *)

\* The page of the document that box boxIndex of set s belongs to: the pages of the sets
\* before it, then the pages of its own set before its own, counted from 1
DocPageOf(s, boxIndex) ==
    SumOfSetPages(s, RepeatCount(Opts), layout.boxesPerPage)
        + (boxIndex \div layout.boxesPerPage) + 1

\* C23: every box is drawn on the page it belongs to, whatever order the encode
\* callbacks complete in; while a callback of page p is pending, page p is the last
\* page of the document and its current page, so page p+1 is not added before all
\* callbacks of page p have run.
C23_BoxesDrawnOnTheirPage ==
    /\ \A q \in DOMAIN pdf.pages :
          \A i \in BoxOps(pdf.pages[q]) :
              DocPageOf(pdf.pages[q][i].setIndex, pdf.pages[q][i].boxIndex) = q
    /\ \A pr \in promises :
          /\ pr.setIndex = setIndex
          /\ pr.startBoxIndex = pageNum * layout.boxesPerPage
          /\ pdf.cur = Len(pdf.pages)
          /\ DocPageOf(pr.setIndex, pr.boxIndex) = pdf.cur

\* C23 witness: the two callbacks of the first page ran in the reverse of slot order, and
\* a box of the second page has been drawn while another one is still pending
C23_Witness ==
    /\ Len(pdf.pages) = 2
    /\ Len(pdf.pages[1]) = 2
    /\ pdf.pages[1][1].slot = 1 /\ pdf.pages[1][2].slot = 0
    /\ BoxOps(pdf.pages[2]) # {}
    /\ promises # {}

----------------------------------------------------------------------------
(* Inputs are only read *)

\* C24: generatePDF, with the detectSets, calculateLayout and calculateContentPositions
\* calls it makes, never modifies the input row array, any of its rows or the caller's
\* options object: no step of a run changes data or options.
C24_InputsUnchanged == [][data' = data /\ options' = options]_vars

\* C24 witness: a run over two sets with options that leave defaults to be merged in
\* has returned its document with boxes drawn
C24_Witness ==
    /\ pc = "done"
    /\ Len(sets) >= 2
    /\ options # Opts
    /\ \E q \in DOMAIN pdf.pages : BoxOps(pdf.pages[q]) # {}

----------------------------------------------------------------------------
(* barcodeGenerator.ts: generateBarcodePDF *)

MaxBarcodeRows == 4

BarcodeOpts == MergeBarcodeOptions(barcode.options)

\* opts.boxesPerRow || Math.floor(availableWidth / (opts.boxWidth + opts.boxSpacing)),
\* and the same for columns, with available = page extent - 2 * margin
BarcodeBoxesPer(manual, extent, o, boxExtent) ==
    OrDefault(manual, FloorDiv(extent - (o.margin[1] * 2), boxExtent + o.boxSpacing[1]))

\* Math.floor(i / boxesPerPage) for i >= 0: finite, or Infinity (i / 0), or NaN (0 / 0)
PageIndex(i, boxesPerPage) ==
    IF boxesPerPage # 0 THEN [kind |-> "fin", v |-> FloorDiv(i, boxesPerPage)]
    ELSE IF i > 0 THEN [kind |-> "inf", v |-> 0]
    ELSE [kind |-> "nan", v |-> 0]

NeedsBarcodePage_AtLeast(pageIndex, currentPage) ==
    \/ pageIndex.kind = "inf"
    \/ pageIndex.kind = "fin" /\ currentPage.kind = "fin" /\ pageIndex.v >= currentPage.v

\* pageIndex > currentPage
NeedsBarcodePage(pageIndex, currentPage) ==
    \/ pageIndex.kind = "inf" /\ currentPage.kind = "fin"
    \/ pageIndex.kind = "fin" /\ currentPage.kind = "fin" /\ pageIndex.v > currentPage.v

\* i % boxesPerPage
PositionInPage(i, boxesPerPage) ==
    IF boxesPerPage = 0 THEN NaN ELSE Fin(JsRem(i, boxesPerPage))

\* Math.floor(positionInPage / boxesPerRow)
BarcodeRowOf(positionInPage, boxesPerRow) ==
    IF positionInPage.nan \/ boxesPerRow = 0 THEN NaN
    ELSE Fin(FloorDiv(positionInPage.v, boxesPerRow))

\* positionInPage % boxesPerRow
BarcodeColOf(positionInPage, boxesPerRow) ==
    IF positionInPage.nan \/ boxesPerRow = 0 THEN NaN
    ELSE Fin(JsRem(positionInPage.v, boxesPerRow))

\* start + index * (box + opts.boxSpacing), with start = opts.margin +
\* (available - total) / 2 the offset that centres the grid
BarcodeCoord(index, count, extent, boxExtent, o) ==
    LET available == extent - (o.margin[1] * 2)
        total == (count * boxExtent) + ((count - 1) * o.boxSpacing[1])
        start == o.margin[1] + Half(available - total)
    IN IF index.nan THEN NaN ELSE Fin(start + (index.v * (boxExtent + o.boxSpacing[1])))

\* item.gtin || item.GTIN || ''
GtinOf(item) ==
    IF Truthy(item.gtin) THEN item.gtin
    ELSE IF Truthy(item.GTIN) THEN item.GTIN
    ELSE EmptyString

\* What one iteration draws for row i: kind "rect" is the box border; kind "barcode" is
\* the image and the texts drawn after the encoder has answered
BarcodeOp(kind, i) ==
    LET o == BarcodeOpts
        positionInPage == PositionInPage(i, barcode.boxesPerPage)
        row == BarcodeRowOf(positionInPage, barcode.boxesPerRow)
        col == BarcodeColOf(positionInPage, barcode.boxesPerRow)
    IN [kind |-> kind, i |-> i, item |-> data[i + 1].id,
        positionInPage |-> positionInPage, row |-> row, col |-> col,
        x |-> BarcodeCoord(col, barcode.boxesPerRow, barcode.pageDimensions.width,
                           o.boxWidth[1], o),
        y |-> BarcodeCoord(row, barcode.boxesPerColumn, barcode.pageDimensions.height,
                           o.boxHeight[1], o),
        gtin |-> GtinOf(data[i + 1])]

\* A row of a barcode sheet: its GTIN in the gtin or in the GTIN column, or in neither;
\* encodable is whether JsBarcode accepts the text
BarcodeItem(i, k) ==
    [id |-> i,
     gtin |-> IF k = "gtin" THEN Text(30 + i) ELSE NoCell,
     GTIN |-> IF k = "GTIN" THEN Text(40 + i) ELSE NoCell,
     encodable |-> k = "gtin"]

BarcodeData(n, ks) == [i \in 1..n |-> BarcodeItem(i, ks[i])]

\* Grids of two boxes a page given by the caller, a grid of 2 x 2 derived from large
\* boxes, a boxesPerRow of 0 (derived instead), and a box wider than the page (no column)
BarcodeOptionsSet ==
    { [NoBarcodeOptions EXCEPT !.boxesPerRow = Some(2), !.boxesPerColumn = Some(1)],
      [NoBarcodeOptions EXCEPT !.boxesPerRow = Some(1), !.boxesPerColumn = Some(2),
                               !.pageSize = Some(PageName("Letter")),
                               !.orientation = Some("landscape")],
      [NoBarcodeOptions EXCEPT !.boxWidth = Some(8000), !.boxHeight = Some(13000)],
      [NoBarcodeOptions EXCEPT !.boxWidth = Some(8000), !.boxesPerRow = Some(0),
                               !.boxesPerColumn = Some(1), !.margin = Some(500)],
      [NoBarcodeOptions EXCEPT !.boxWidth = Some(25000), !.boxesPerColumn = Some(2)] }

InitBarcode ==
    /\ \E n \in 0..MaxBarcodeRows : \E ks \in [1..n -> {"gtin", "GTIN", "none"}] :
          data = BarcodeData(n, ks)
    /\ \E o \in BarcodeOptionsSet : barcode = [NoBarcode EXCEPT !.options = o]
    /\ options = NoOptions
    /\ pc = "barcode"
    /\ sets = <<>>
    /\ layout = NoLayout
    /\ setIndex = 0
    /\ pageNum = 0
    /\ isFirstPage = TRUE
    /\ totalPagesCreated = 0
    /\ promises = {}
    /\ rejected = FALSE
    /\ pdf = NewDocument
    /\ svg = None
    /\ eps = None
    /\ positions = NoPositions
    /\ qrPageDims = NoDimensions
    /\ ui = InitialUiState
    /\ uploader = NoUploader

\* Lines 72-90: merge the options, resolve the page, derive the grid, currentPage = 0
BarcodeStart ==
    /\ pc = "barcode"
    /\ LET o == BarcodeOpts
           pageDimensions == barcodeGetPageDimensions(o.pageSize[1], o.orientation[1])
           boxesPerRow == BarcodeBoxesPer(o.boxesPerRow, pageDimensions.width, o,
                                          o.boxWidth[1])
           boxesPerColumn == BarcodeBoxesPer(o.boxesPerColumn, pageDimensions.height, o,
                                             o.boxHeight[1])
       IN barcode' = [barcode EXCEPT !.pageDimensions = pageDimensions,
                                     !.boxesPerRow = boxesPerRow,
                                     !.boxesPerColumn = boxesPerColumn,
                                     !.boxesPerPage = boxesPerRow * boxesPerColumn,
                                     !.i = 0,
                                     !.currentPage = [kind |-> "fin", v |-> 0]]
    /\ pc' = "barcode-loop"
    /\ UNCHANGED <<data, options, sets, layout, setIndex, pageNum, isFirstPage,
                   totalPagesCreated, promises, rejected, pdf, svg, eps, positions,
                   qrPageDims, ui, uploader>>

\* Lines 92-118: one iteration up to the encoder: add a page when pageIndex has passed
\* currentPage, draw the box border, then ask for the barcode when the row has a GTIN
BarcodeBox ==
    /\ pc = "barcode-loop"
    /\ barcode.i < Len(data)
    /\ LET i == barcode.i
           pageIndex == PageIndex(i, barcode.boxesPerPage)
           newPage == NeedsBarcodePage(pageIndex, barcode.currentPage)
           hasGtin == Truthy(GtinOf(data[i + 1]))
       IN /\ pdf' = Draw(IF newPage THEN AddPage(pdf) ELSE pdf, BarcodeOp("rect", i))
          /\ barcode' = [barcode EXCEPT
                            !.currentPage = IF newPage THEN pageIndex ELSE @,
                            !.i = IF hasGtin THEN i ELSE i + 1]
          /\ pc' = IF hasGtin THEN "barcode-await" ELSE "barcode-loop"
    /\ UNCHANGED <<data, options, sets, layout, setIndex, pageNum, isFirstPage,
                   totalPagesCreated, promises, rejected, svg, eps, positions, qrPageDims,
                   ui, uploader>>

\* Lines 118-193: the encoder answers; the image and the texts are drawn in the box
BarcodeEncoded ==
    /\ pc = "barcode-await"
    /\ data[barcode.i + 1].encodable
    /\ pdf' = Draw(pdf, BarcodeOp("barcode", barcode.i))
    /\ barcode' = [barcode EXCEPT !.i = @ + 1]
    /\ pc' = "barcode-loop"
    /\ UNCHANGED <<data, options, sets, layout, setIndex, pageNum, isFirstPage,
                   totalPagesCreated, promises, rejected, svg, eps, positions, qrPageDims,
                   ui, uploader>>

\* Lines 195-197: the encoder rejects the text; the catch logs it and the loop goes on
BarcodeEncodeFailed ==
    /\ pc = "barcode-await"
    /\ ~data[barcode.i + 1].encodable
    /\ barcode' = [barcode EXCEPT !.i = @ + 1]
    /\ pc' = "barcode-loop"
    /\ UNCHANGED <<data, options, sets, layout, setIndex, pageNum, isFirstPage,
                   totalPagesCreated, promises, rejected, pdf, svg, eps, positions,
                   qrPageDims, ui, uploader>>

\* Line 201: the loop is over; return the document
BarcodeReturn ==
    /\ pc = "barcode-loop"
    /\ barcode.i >= Len(data)
    /\ pc' = "barcode-done"
    /\ UNCHANGED <<data, options, sets, layout, setIndex, pageNum, isFirstPage,
                   totalPagesCreated, promises, rejected, pdf, svg, eps, positions,
                   qrPageDims, barcode, ui, uploader>>

NextBarcode ==
    \/ BarcodeStart
    \/ BarcodeBox
    \/ BarcodeEncoded
    \/ BarcodeEncodeFailed
    \/ BarcodeReturn

SpecBarcode == InitBarcode /\ [][NextBarcode]_vars

\* The box borders of a page, in the order they were drawn
RECURSIVE RectsOf(_, _)
RectsOf(page, n) ==
    IF n = 0 THEN <<>>
    ELSE RectsOf(page, n - 1) \o (IF page[n].kind = "rect" THEN <<page[n]>> ELSE <<>>)

\* The box borders of a document, page by page
RECURSIVE AllRects(_, _)
AllRects(pages, n) ==
    IF n = 0 THEN <<>> ELSE AllRects(pages, n - 1) \o RectsOf(pages[n], Len(pages[n]))

\* The number of rows whose border has been drawn
BordersDue ==
    IF pc = "barcode-await" THEN barcode.i + 1
    ELSE IF pc = "barcode-done" THEN Len(data)
    ELSE barcode.i

\* C25: with boxesPerPage > 0 (boxesPerRow, boxesPerColumn >= 1), generateBarcodePDF
\* draws exactly one box border per input row, in input order; row i is on page
\* floor(i / boxesPerPage), in column (i mod boxesPerPage) mod boxesPerRow and row
\* floor((i mod boxesPerPage) / boxesPerRow); the document has one page at first and
\* gains a page exactly at each i > 0 that is a multiple of boxesPerPage.
C25_BarcodePagination ==
    (pc \in {"barcode-loop", "barcode-await", "barcode-done"} /\ barcode.boxesPerPage > 0
     /\ barcode.boxesPerRow > 0)
    => LET k == barcode.boxesPerPage
           rects == AllRects(pdf.pages, Len(pdf.pages))
       IN /\ Len(rects) = BordersDue
          /\ \A j \in 1..Len(rects) : rects[j].i = j - 1 /\ rects[j].item = data[j].id
          /\ Len(pdf.pages) = IF BordersDue = 0 THEN 1 ELSE ((BordersDue - 1) \div k) + 1
          /\ \A q \in DOMAIN pdf.pages : \A m \in DOMAIN pdf.pages[q] :
                LET op == pdf.pages[q][m]
                IN op.kind = "rect" =>
                      /\ q = (op.i \div k) + 1
                      /\ op.col = Fin((op.i % k) % barcode.boxesPerRow)
                      /\ op.row = Fin((op.i % k) \div barcode.boxesPerRow)

\* C25 witness: four rows on pages of two boxes are done; the second page starts with
\* row 2 and a row without a GTIN has its border all the same
C25_Witness ==
    /\ pc = "barcode-done"
    /\ barcode.boxesPerPage = 2
    /\ Len(data) = 4
    /\ Len(pdf.pages) = 2
    /\ pdf.pages[2][1].kind = "rect" /\ pdf.pages[2][1].i = 2
    /\ \E j \in 1..4 : ~Truthy(GtinOf(data[j]))

----------------------------------------------------------------------------
(* Termination of generatePDF *)

\* The runs of generatePDF with a page of at most two boxes and no repeat
InitFair == Init /\ options \in SmallLayouts

\* The event loop runs every continuation that is ready: a step of generatePDF that
\* stays possible is eventually taken
SpecFair == InitFair /\ [][Next]_vars /\ WF_vars(Next)

\* C26: generatePDF's pagination terminates for every finite input and every options
\* value, a boxesPerRow or boxesPerColumn of 0 included: every run eventually returns
\* its document or throws.
C26_PaginationTerminates == <>(pc \in {"done", "failed"})

----------------------------------------------------------------------------
(* Boxes inside the page *)

\* C27: in auto-derived mode with boxesPerRow >= 1, boxesPerColumn >= 1 and positive
\* spacing, every box generatePDF places lies inside the page horizontally (0 <= x and
\* x + boxWidth <= pageWidth) and above the footer band vertically (0 <= y and
\* y + boxHeight <= availableHeight).
C27_BoxesInsidePage ==
    LET opts == Opts
        availableHeight == qrPageDims.height - FooterHeight(opts)
    IN (/\ pc # "start"
        /\ ~ManualLayout(opts)
        /\ layout.boxesPerRow >= 1 /\ layout.boxesPerColumn >= 1
        /\ BoxSpacingOf(opts) > 0 /\ RowSpacingOf(opts) > 0)
       => \A q \in DOMAIN pdf.pages : \A i \in BoxOps(pdf.pages[q]) :
             LET op == pdf.pages[q][i]
             IN /\ 0 <= op.x /\ op.x + opts.boxWidth[1] <= qrPageDims.width
                /\ 0 <= op.y /\ op.y + opts.boxHeight[1] <= availableHeight

\* C27 witness: an auto-derived page is full; its last box is in the last column or the
\* last row of the grid
C27_Witness ==
    /\ pc = "done"
    /\ ~ManualLayout(Opts)
    /\ IsSet(options.boxSpacing) /\ IsSet(options.rowSpacing)
    /\ \E q \in DOMAIN pdf.pages : \E i \in BoxOps(pdf.pages[q]) :
          /\ pdf.pages[q][i].slot = layout.boxesPerPage - 1
          /\ pdf.pages[q][i].col = layout.boxesPerRow - 1
          /\ pdf.pages[q][i].rowNum = layout.boxesPerColumn - 1

----------------------------------------------------------------------------
(* QRCodeGenerator.tsx: settings, preview pages and handleGenerate *)

MaxUiRows == 3

\* getPageDimensions of the component: the custom size or a preset, swapped for landscape
UiGetPageDimensions(u) ==
    LET size == CASE u.pageSize = "custom" ->
                        [width |-> u.customWidth, height |-> u.customHeight]
                  [] u.pageSize = "a3" -> [width |-> 29700, height |-> 42000]
                  [] u.pageSize = "letter" -> [width |-> 21590, height |-> 27940]
                  [] OTHER -> [width |-> 21000, height |-> 29700]
    IN IF u.orientation = "portrait" THEN size
       ELSE [width |-> size.height, height |-> size.width]

\* The effect on the layout settings: boxesPerRow * boxesPerColumn when both are set,
\* else maxBoxesInWidth * maxBoxesInHeight
UiBoxesPerPage(u) ==
    IF IsSet(u.boxesPerRow) /\ IsSet(u.boxesPerColumn)
    THEN u.boxesPerRow[1] * u.boxesPerColumn[1]
    ELSE LET pageDimensions == UiGetPageDimensions(u)
         IN FloorDiv(pageDimensions.width - u.boxSpacing, u.boxWidth + u.boxSpacing)
              * FloorDiv(pageDimensions.height - u.boxSpacing, u.boxHeight + u.boxSpacing)

\* A state change followed by the render and the effect it triggers
Rendered(u) == [u EXCEPT !.boxesPerPage = UiBoxesPerPage(u)]

\* const totalPages = Math.ceil(data.length / boxesPerPage)
totalPages(d, u) == NumPagesForSet(Len(d), u.boxesPerPage)

\* previewPage < totalPages - 1
BeforeLastPage(previewPage, pages) ==
    pages.kind = "inf" \/ (pages.kind = "fin" /\ previewPage < pages.v - 1)

\* totalPages > 1: the page buttons are rendered
HasPageButtons(pages) == pages.kind = "inf" \/ (pages.kind = "fin" /\ pages.v > 1)

\* x || undefined for a number | null
OrUndefined(m) == IF IsSet(m) /\ m[1] # 0 THEN m ELSE None

\* The options handleGenerate passes to downloadIllustratorFiles
HandleGenerateOptions(u) ==
    [NoOptions EXCEPT
        !.boxWidth = Some(u.boxWidth), !.boxHeight = Some(u.boxHeight),
        !.boxSpacing = Some(u.boxSpacing), !.qrCodeSize = Some(60),
        !.orientation = Some(u.orientation),
        !.pageSize = Some(IF u.pageSize = "custom"
                          THEN PageObject(u.customWidth, u.customHeight)
                          ELSE PageName(u.pageSize)),
        !.boxesPerRow = OrUndefined(u.boxesPerRow),
        !.boxesPerColumn = OrUndefined(u.boxesPerColumn),
        !.showFooter = Some(u.showFooter),
        !.customQty = IF u.customQty = "" THEN None ELSE Some(u.customQty)]

InitUI ==
    /\ \E n \in 0..MaxUiRows : \E cs \in [1..n -> PdfCounts] :
          \E bad \in {0, 1} \cap (0..n) : data = PdfData(n, cs, bad, 0)
    /\ ui = InitialUiState
    /\ pc = "ui-mount"
    /\ options = NoOptions
    /\ sets = <<>>
    /\ layout = NoLayout
    /\ setIndex = 0
    /\ pageNum = 0
    /\ isFirstPage = TRUE
    /\ totalPagesCreated = 0
    /\ promises = {}
    /\ rejected = FALSE
    /\ pdf = NewDocument
    /\ svg = None
    /\ eps = None
    /\ positions = NoPositions
    /\ qrPageDims = NoDimensions
    /\ barcode = NoBarcode
    /\ uploader = NoUploader

\* Lines 173-183: the effect runs after the first render
UiMount ==
    /\ pc = "ui-mount"
    /\ ui' = Rendered(ui)
    /\ pc' = "ui"
    /\ UNCHANGED <<data, options, sets, layout, setIndex, pageNum, isFirstPage,
                   totalPagesCreated, promises, rejected, pdf, svg, eps, positions,
                   qrPageDims, barcode, uploader>>

\* The user changes one setting; the component renders again and the effect runs
UiSet(u) ==
    /\ pc = "ui"
    /\ ui' = Rendered(u)
    /\ UNCHANGED <<data, options, pc, sets, layout, setIndex, pageNum, isFirstPage,
                   totalPagesCreated, promises, rejected, pdf, svg, eps, positions,
                   qrPageDims, barcode, uploader>>

\* The "Boxes Per Row" input: '' gives null, else Number(e.target.value)
UiSetBoxesPerRow ==
    \E v \in {None, Some(1), Some(2)} : UiSet([ui EXCEPT !.boxesPerRow = v])

\* The "Boxes Per Column" input
UiSetBoxesPerColumn ==
    \E v \in {None, Some(1), Some(2)} : UiSet([ui EXCEPT !.boxesPerColumn = v])

\* The "Box Spacing" slider, 5 to 30 mm
UiSetBoxSpacing ==
    \E v \in {500, 1000} : UiSet([ui EXCEPT !.boxSpacing = v])

\* The "Page Size" select
UiSetPageSize ==
    \E v \in {"a4", "a3"} : UiSet([ui EXCEPT !.pageSize = v])

\* Lines 263-267: the "Next Page" button, rendered while totalPages > 1
UiNextPage ==
    /\ pc = "ui"
    /\ data # <<>>
    /\ HasPageButtons(totalPages(data, ui))
    /\ BeforeLastPage(ui.previewPage, totalPages(data, ui))
    /\ ui' = [ui EXCEPT !.previewPage = @ + 1]
    /\ UNCHANGED <<data, options, pc, sets, layout, setIndex, pageNum, isFirstPage,
                   totalPagesCreated, promises, rejected, pdf, svg, eps, positions,
                   qrPageDims, barcode, uploader>>

\* Lines 269-273: the "Previous Page" button, rendered while totalPages > 1
UiPrevPage ==
    /\ pc = "ui"
    /\ data # <<>>
    /\ HasPageButtons(totalPages(data, ui))
    /\ ui.previewPage > 0
    /\ ui' = [ui EXCEPT !.previewPage = @ - 1]
    /\ UNCHANGED <<data, options, pc, sets, layout, setIndex, pageNum, isFirstPage,
                   totalPagesCreated, promises, rejected, pdf, svg, eps, positions,
                   qrPageDims, barcode, uploader>>

\* Lines 212-261: handleGenerate builds the options and calls generatePDF
HandleGenerate ==
    /\ pc = "ui"
    /\ options' = HandleGenerateOptions(ui)
    /\ pc' = "start"
    /\ UNCHANGED <<data, ui, sets, layout, setIndex, pageNum, isFirstPage,
                   totalPagesCreated, promises, rejected, pdf, svg, eps, positions,
                   qrPageDims, barcode, uploader>>

NextUI ==
    \/ UiMount
    \/ UiSetBoxesPerRow
    \/ UiSetBoxesPerColumn
    \/ UiSetBoxSpacing
    \/ UiSetPageSize
    \/ UiNextPage
    \/ UiPrevPage
    \/ HandleGenerate
    \/ Start
    \/ BeginPage
    \/ EncodeResolved
    \/ EncodeRejected
    \/ AwaitAllResolved
    \/ AwaitAllRejected
    \/ Finish

SpecUI == InitUI /\ [][NextUI]_vars

\* C28: for the same data and settings, the boxes-per-page and the page count the
\* component displays equal the per-page capacity generatePDF computes and the number
\* of pages of the document it returns.
C28_UiMatchesGenerator ==
    /\ pc \in {"loop", "await", "failed", "done"} => ui.boxesPerPage = layout.boxesPerPage
    /\ (pc = "done" /\ data # <<>>) =>
           totalPages(data, ui) = [kind |-> "fin", v |-> Len(pdf.pages)]

\* C29: after any sequence of next-page, previous-page and layout-setting changes with
\* non-empty data, 0 <= previewPage <= totalPages - 1.
C29_PreviewPageInRange ==
    (pc = "ui" /\ data # <<>>) =>
        LET pages == totalPages(data, ui)
        IN /\ 0 <= ui.previewPage
           /\ pages.kind = "fin" => ui.previewPage <= pages.v - 1
           /\ pages.kind # "nan"

----------------------------------------------------------------------------
(* ExcelUploader.tsx: handleFile *)

MaxFiles == 3

\* A submitted file: a name that ends in .xlsx or .xls or not, and what parsing and
\* validating its content gives
FileKinds == {"badname", "valid", "invalid", "unreadable"}

\* handleFile up to its await: refuse a wrong file name, else setIsLoading(true) and
\* start parseExcelFile; the call is kept with the index of its submission
handleFile(up, kind) ==
    LET id == Len(up.calls) + 1
    IN IF kind = "badname"
       THEN [up EXCEPT !.calls = Append(@, [file |-> id, kind |-> kind,
                                            status |-> "refused"])]
       ELSE [up EXCEPT !.calls = Append(@, [file |-> id, kind |-> kind,
                                            status |-> "parsing"]),
                       !.isLoading = TRUE]

\* onDataLoaded(data): the page keeps the rows of the call that delivers them
OnDataLoaded(up, k) == Some(up.calls[k].file)

InitUpload ==
    /\ uploader = NoUploader
    /\ pc = "upload"
    /\ data = <<>>
    /\ options = NoOptions
    /\ sets = <<>>
    /\ layout = NoLayout
    /\ setIndex = 0
    /\ pageNum = 0
    /\ isFirstPage = TRUE
    /\ totalPagesCreated = 0
    /\ promises = {}
    /\ rejected = FALSE
    /\ pdf = NewDocument
    /\ svg = None
    /\ eps = None
    /\ positions = NoPositions
    /\ qrPageDims = NoDimensions
    /\ barcode = NoBarcode
    /\ ui = InitialUiState

\* Lines 80-84: a file is chosen in the file input, which is disabled while isLoading
HandleFileChange ==
    /\ Len(uploader.calls) < MaxFiles
    /\ ~uploader.isLoading
    /\ \E kind \in FileKinds : uploader' = handleFile(uploader, kind)
    /\ UNCHANGED <<data, options, pc, sets, layout, setIndex, pageNum, isFirstPage,
                   totalPagesCreated, promises, rejected, pdf, svg, eps, positions,
                   qrPageDims, barcode, ui>>

\* Lines 70-78: a file is dropped on the drop zone, at any time
HandleDrop ==
    /\ Len(uploader.calls) < MaxFiles
    /\ \E kind \in FileKinds : uploader' = handleFile(uploader, kind)
    /\ UNCHANGED <<data, options, pc, sets, layout, setIndex, pageNum, isFirstPage,
                   totalPagesCreated, promises, rejected, pdf, svg, eps, positions,
                   qrPageDims, barcode, ui>>

\* Lines 28-46, 53-55: a parse resolves with valid rows; onDataLoaded(data), then
\* setIsLoading(false)
ParseLoaded ==
    /\ \E k \in DOMAIN uploader.calls :
          /\ uploader.calls[k].status = "parsing"
          /\ uploader.calls[k].kind = "valid"
          /\ uploader' = [uploader EXCEPT !.calls[k].status = "loaded",
                                          !.loaded = OnDataLoaded(uploader, k),
                                          !.isLoading = FALSE]
    /\ UNCHANGED <<data, options, pc, sets, layout, setIndex, pageNum, isFirstPage,
                   totalPagesCreated, promises, rejected, pdf, svg, eps, positions,
                   qrPageDims, barcode, ui>>

\* Lines 28-39: a parse resolves with rows that validateExcelData refuses
ParseInvalid ==
    /\ \E k \in DOMAIN uploader.calls :
          /\ uploader.calls[k].status = "parsing"
          /\ uploader.calls[k].kind = "invalid"
          /\ uploader' = [uploader EXCEPT !.calls[k].status = "invalid",
                                          !.isLoading = FALSE]
    /\ UNCHANGED <<data, options, pc, sets, layout, setIndex, pageNum, isFirstPage,
                   totalPagesCreated, promises, rejected, pdf, svg, eps, positions,
                   qrPageDims, barcode, ui>>

\* Lines 47-55: the parse rejects; the catch shows the error, then setIsLoading(false)
ParseRejected ==
    /\ \E k \in DOMAIN uploader.calls :
          /\ uploader.calls[k].status = "parsing"
          /\ uploader.calls[k].kind = "unreadable"
          /\ uploader' = [uploader EXCEPT !.calls[k].status = "error",
                                          !.isLoading = FALSE]
    /\ UNCHANGED <<data, options, pc, sets, layout, setIndex, pageNum, isFirstPage,
                   totalPagesCreated, promises, rejected, pdf, svg, eps, positions,
                   qrPageDims, barcode, ui>>

NextUpload ==
    \/ HandleFileChange
    \/ HandleDrop
    \/ ParseLoaded
    \/ ParseInvalid
    \/ ParseRejected

SpecUpload == InitUpload /\ [][NextUpload]_vars

\* C30: when files are submitted one after the other, a later one while an earlier one is
\* still being parsed, then once every parse has finished the data last passed to
\* onDataLoaded is that of the file submitted last (when that file loads), whatever
\* order the parses finish in.
C30_LastSubmittedWins ==
    LET n == Len(uploader.calls)
    IN (/\ n >= 2
        /\ \A k \in 1..n : uploader.calls[k].status # "parsing"
        /\ uploader.calls[n].status = "loaded")
       => uploader.loaded = Some(uploader.calls[n].file)

====
